---------------------------- MODULE Spec2Model ----------------------------
(***************************************************************************)
(* A model of the voice_expense client: the expense store (table notes),   *)
(* the users table, and the handlers of the screens that read and write    *)
(* them (manual entry, voice confirmation, edit, home list), together with *)
(* the pure helpers they use (date coercion, amount parsing, extraction of *)
(* a JSON object from a chat-completion response).                         *)
(*                                                                         *)
(* JavaScript values are modelled as tagged records: JsNull, Str(payload), *)
(* Num(cents).  A decimal amount is an integer number of hundredths.  A    *)
(* Date is an instant, an integer number of hours since the model epoch    *)
(* (EpochYear-01-01T00:00Z); the device's UTC offset tz is in hours, so    *)
(* that local time = instant + tz.                                         *)
(***************************************************************************)
EXTENDS Integers, Sequences, FiniteSets, TLC

\* ------------------------------------------------------------------ bounds

\* The device's UTC offset ranges over -MaxTz .. MaxTz hours.
MaxTz == 2
\* At most MaxTakes recordings are started on the record screen.
MaxTakes == 2
\* The store assigns at most MaxNotes identifiers in one behaviour.
MaxNotes == 2
\* The store applies at most MaxEdits updates in one behaviour.
MaxEdits == 1
\* At most MaxChanges change notifications wait for delivery.
MaxChanges == 1
\* At most MaxFetch invocations of fetchNotes are in flight at once.
MaxFetch == 2
\* The content of a chat-completion message has at most MaxContent tokens.
MaxContent == 4
\* The memo texts of the exported records have at most MaxField characters.
MaxField == 2
\* The lists given to transformNotesToExpenseGroups have at most MaxList notes.
MaxList == 3

\* ------------------------------------------------------------- JS values

JsNull == [type |-> "null"]
JsUndefined == [type |-> "undefined"]
JsNaN == [type |-> "nan"]
Str(s) == [type |-> "string", s |-> s]
Num(n) == [type |-> "number", n |-> n]

\* JavaScript truthiness of the values the forms hold: null, the empty
\* string, 0 (and NaN, which ParseFloat never lets out) are falsy.
Truthy(v) ==
    CASE v.type \in {"null", "undefined", "nan"} -> FALSE
      [] v.type = "string" -> v.s # <<>>
      [] v.type = "number" -> v.n # 0
      [] OTHER             -> TRUE

\* a || b
OrElse(a, b) == IF Truthy(a) THEN a ELSE b

\* a ?? b
Coalesce(a, b) == IF a.type \in {"null", "undefined"} THEN b ELSE a

\* --------------------------------------------------------------- calendar

Years == {2023, 2024}
EpochYear == CHOOSE y \in Years : \A z \in Years : y <= z

IsLeap(y) == (y % 4 = 0 /\ y % 100 # 0) \/ y % 400 = 0

DaysInMonth(y, m) ==
    CASE m \in {1, 3, 5, 7, 8, 10, 12} -> 31
      [] m \in {4, 6, 9, 11}           -> 30
      [] OTHER                         -> IF IsLeap(y) THEN 29 ELSE 28

DaysInYear(y) == IF IsLeap(y) THEN 366 ELSE 365

RECURSIVE DaysBeforeYear(_)
DaysBeforeYear(y) ==
    IF y <= EpochYear THEN 0 ELSE DaysBeforeYear(y - 1) + DaysInYear(y - 1)

RECURSIVE DaysBeforeMonth(_, _)
DaysBeforeMonth(y, m) ==
    IF m <= 1 THEN 0 ELSE DaysBeforeMonth(y, m - 1) + DaysInMonth(y, m - 1)

\* The day number of a calendar date [y, m, d], counted from the epoch.
DayNumber(c) == DaysBeforeYear(c.y) + DaysBeforeMonth(c.y, c.m) + (c.d - 1)

RECURSIVE MonthFromDay(_, _, _)
MonthFromDay(y, m, n) ==
    IF n < DaysInMonth(y, m)
    THEN [y |-> y, m |-> m, d |-> n + 1]
    ELSE MonthFromDay(y, m + 1, n - DaysInMonth(y, m))

RECURSIVE YearFromDay(_, _)
YearFromDay(y, n) ==
    IF n < DaysInYear(y) THEN MonthFromDay(y, 1, n)
    ELSE YearFromDay(y + 1, n - DaysInYear(y))

\* The calendar date of day number n >= 0.
CivilFromDay(n) == YearFromDay(EpochYear, n)

\* The day number an instant falls on in UTC (\div rounds down).
UtcDay(t) == t \div 24

\* ------------------------------------------------------------------ dates
\* A date text is a string whose payload is <<>> (empty), <<" ">> (blank),
\* <<"null">>, <<"x">> (not a date), <<"mdy", y, m, d>> ("Apr 24, 2024") or
\* <<"iso", y, m, d>> ("2024-04-24").  A Date object is [valid, t].

MdyText(c) == Str(<<"mdy", c.y, c.m, c.d>>)
IsoText(c) == Str(<<"iso", c.y, c.m, c.d>>)
IsDateText(v) == v.type = "string" /\ Len(v.s) = 4 /\ v.s[1] \in {"mdy", "iso"}
CivilOf(v) == [y |-> v.s[2], m |-> v.s[3], d |-> v.s[4]]

InvalidDate == [valid |-> FALSE, t |-> 0]

\* new Date(string): "MMM D, YYYY" is read as local midnight, the date-only
\* form "YYYY-MM-DD" as UTC midnight, anything else gives an invalid Date.
NewDate(v, tz) ==
    IF ~IsDateText(v) THEN InvalidDate
    ELSE IF v.s[1] = "mdy"
         THEN [valid |-> TRUE, t |-> DayNumber(CivilOf(v)) * 24 - tz]
         ELSE [valid |-> TRUE, t |-> DayNumber(CivilOf(v)) * 24]

\* date.toISOString().split('T')[0]: the UTC calendar date of the instant.
ToISODate(date) == CivilFromDay(UtcDay(date.t))

\* The local calendar date of the instant (getFullYear/getMonth/getDate).
LocalCivil(date, tz) == CivilFromDay(UtcDay(date.t + tz))

\* date.toLocaleDateString('en-US', {month: 'short', day: 'numeric', year: 'numeric'})
ToLocaleDateString(date, tz) ==
    IF date.valid THEN MdyText(LocalCivil(date, tz)) ELSE Str(<<"x">>)

getTodayDate(now, tz) == ToLocaleDateString([valid |-> TRUE, t |-> now], tz)

parseDateString(dateString, now, tz) ==
    IF ~Truthy(dateString) THEN [valid |-> TRUE, t |-> now]
    ELSE IF ~NewDate(dateString, tz).valid THEN [valid |-> TRUE, t |-> now]
    ELSE NewDate(dateString, tz)

\* transactionDate.toISOString().split('T')[0] of the parsed form date.
DateStringOf(dateText, now, tz) == ToISODate(parseDateString(dateText, now, tz))

formatDateForDisplay(dateString, tz) == ToLocaleDateString(NewDate(dateString, tz), tz)

\* ---------------------------------------------------------------- amounts
\* An amount text is a sequence of one-character strings.

DigitChars == <<"0", "1", "2", "3", "4", "5", "6", "7", "8", "9">>
IsDigit(ch) == \E i \in 1..Len(DigitChars) : DigitChars[i] = ch
DigitVal(ch) == (CHOOSE i \in 1..Len(DigitChars) : DigitChars[i] = ch) - 1

\* amount.replace(/[^0-9.]/g, '')
StripNonNumeric(txt) == SelectSeq(txt, LAMBDA ch : IsDigit(ch) \/ ch = ".")

RECURSIVE DigitPrefix(_)
DigitPrefix(txt) ==
    IF txt # <<>> /\ IsDigit(Head(txt)) THEN <<Head(txt)>> \o DigitPrefix(Tail(txt))
    ELSE <<>>

RECURSIVE DigitsValue(_, _)
DigitsValue(ds, acc) ==
    IF ds = <<>> THEN acc ELSE DigitsValue(Tail(ds), acc * 10 + DigitVal(Head(ds)))

\* The first two fraction digits, in hundredths.
FractionValue(ds) ==
    (IF Len(ds) >= 1 THEN DigitVal(ds[1]) * 10 ELSE 0)
    + (IF Len(ds) >= 2 THEN DigitVal(ds[2]) ELSE 0)

\* parseFloat of a text of digits and dots: the longest prefix
\* digits [. digits]; NaN when it holds no digit.
ParseFloat(txt) ==
    LET ip   == DigitPrefix(txt)
        rest == SubSeq(txt, Len(ip) + 1, Len(txt))
        fp   == IF rest # <<>> /\ Head(rest) = "." THEN DigitPrefix(Tail(rest)) ELSE <<>>
    IN  IF ip = <<>> /\ fp = <<>> THEN JsNaN
        ELSE Num(DigitsValue(ip, 0) * 100 + FractionValue(fp))

\* A variant of NumericAmount whose fallback is 1.
NumericAmountOrOne(txt) == OrElse(ParseFloat(StripNonNumeric(txt)), Num(100))

\* parseFloat(text.replace(/[^0-9.]/g, '')) || 0
NumericAmount(txt) == OrElse(ParseFloat(StripNonNumeric(txt)), Num(0))

RECURSIVE NatDigits(_)
NatDigits(n) ==
    IF n < 10 THEN <<DigitChars[n + 1]>>
    ELSE NatDigits(n \div 10) \o <<DigitChars[(n % 10) + 1]>>

\* Number.prototype.toString of an amount in hundredths.
NumberToString(v) ==
    LET a    == IF v.n < 0 THEN -v.n ELSE v.n
        frac == a % 100
        fs   == IF frac = 0 THEN <<>>
                ELSE IF frac % 10 = 0 THEN <<".", DigitChars[(frac \div 10) + 1]>>
                ELSE <<".", DigitChars[(frac \div 10) + 1], DigitChars[(frac % 10) + 1]>>
    IN  (IF v.n < 0 THEN <<"-">> ELSE <<>>) \o NatDigits(a \div 100) \o fs

\* ------------------------------------------------------- categorizeText
\* The content of a chat-completion message is a sequence of tokens:
\*   "~~~"  a code fence of three backquotes (with or without the tag json),
\*   "{" "}" braces, "_" white space, "x" a word of prose, "7" the JSON
\*   number 7, and member tokens, each one member of a JSON object.

MemberToks == {"A7", "A-5", "Anull", "Dapr", "Dnull", "Dnullw", "Dblank", "Mlunch", "Cmeals"}

MemberKey(tok) ==
    CASE tok \in {"A7", "A-5", "Anull"}               -> "amount"
      [] tok \in {"Dapr", "Dnull", "Dnullw", "Dblank"} -> "date"
      [] tok = "Mlunch"                                -> "memo"
      [] OTHER                                         -> "category"

MemberValue(tok) ==
    CASE tok = "A7"     -> Num(700)
      [] tok = "A-5"    -> Num(-500)
      [] tok = "Anull"  -> JsNull
      [] tok = "Dapr"   -> MdyText([y |-> 2024, m |-> 4, d |-> 24])
      [] tok = "Dnull"  -> JsNull
      [] tok = "Dnullw" -> Str(<<"null">>)
      [] tok = "Dblank" -> Str(<<" ">>)
      [] tok = "Mlunch" -> Str(<<"lunch">>)
      [] OTHER          -> Str(<<"Meals">>)

EmptyObject ==
    [type |-> "object", amount |-> JsUndefined, date |-> JsUndefined,
     memo |-> JsUndefined, category |-> JsUndefined]

RECURSIVE ObjectOf(_, _)
ObjectOf(ms, acc) ==
    IF ms = <<>> THEN acc
    ELSE ObjectOf(Tail(ms), [acc EXCEPT ![MemberKey(Head(ms))] = MemberValue(Head(ms))])

ParseError == [ok |-> FALSE, value |-> JsUndefined]

\* JSON.parse: white space is skipped; the text is an object of members or
\* the number 7, anything else is a SyntaxError.
JsonParse(txt) ==
    LET t == SelectSeq(txt, LAMBDA tok : tok # "_")
    IN  IF t = <<"7">> THEN [ok |-> TRUE, value |-> Num(700)]
        ELSE IF Len(t) >= 2 /\ t[1] = "{" /\ t[Len(t)] = "}"
                /\ \A i \in 2..(Len(t) - 1) : t[i] \in MemberToks
        THEN [ok |-> TRUE, value |-> ObjectOf(SubSeq(t, 2, Len(t) - 1), EmptyObject)]
        ELSE ParseError

\* The position after the white space that starts at position i.
RECURSIVE SkipSpace(_, _)
SkipSpace(txt, i) ==
    IF i <= Len(txt) /\ txt[i] = "_" THEN SkipSpace(txt, i + 1) ELSE i

\* The matches <<i, j, k>> of /~~~(?:json)?\s*(\{[\s\S]*\})\s*~~~/: a fence
\* at i, the group from the brace at j to the brace at k, a fence after it.
FencedMatches(txt) ==
    { m \in (1..Len(txt)) \X (1..Len(txt)) \X (1..Len(txt)) :
        /\ txt[m[1]] = "~~~"
        /\ m[2] = SkipSpace(txt, m[1] + 1)
        /\ txt[m[2]] = "{"
        /\ m[3] > m[2]
        /\ txt[m[3]] = "}"
        /\ SkipSpace(txt, m[3] + 1) <= Len(txt)
        /\ txt[SkipSpace(txt, m[3] + 1)] = "~~~" }

\* The matches <<j, k>> of /(\{[\s\S]*\})/.
BraceMatches(txt) ==
    { m \in (1..Len(txt)) \X (1..Len(txt)) :
        txt[m[1]] = "{" /\ m[2] > m[1] /\ txt[m[2]] = "}" }

\* A variant of LeftmostLongest: the leftmost match taken lazily (the
\* shortest), as /\{[\s\S]*?\}/ would take it.
LeftmostShortest(ms, from, to) ==
    CHOOSE m \in ms :
        \A o \in ms : m[from] < o[from] \/ (m[from] = o[from] /\ m[to] <= o[to])

\* The group of the leftmost match, taken greedily (the longest).
LeftmostLongest(ms, from, to) ==
    CHOOSE m \in ms :
        \A o \in ms : m[from] < o[from] \/ (m[from] = o[from] /\ m[to] >= o[to])

\* jsonMatch ? jsonMatch[1] : content
JsonString(txt) ==
    IF FencedMatches(txt) # {}
    THEN LET m == LeftmostLongest(FencedMatches(txt), 1, 3) IN SubSeq(txt, m[2], m[3])
    ELSE IF BraceMatches(txt) # {}
    THEN LET m == LeftmostLongest(BraceMatches(txt), 1, 2) IN SubSeq(txt, m[1], m[2])
    ELSE txt

Resolved(v) == [outcome |-> "resolved", value |-> v]
Rejected == [outcome |-> "rejected", value |-> JsUndefined]

\* The inner try/catch: the parsed value, or the raw content.
ParseContent(content) ==
    IF JsonParse(JsonString(content)).ok
    THEN Resolved(JsonParse(JsonString(content)).value)
    ELSE Resolved(Str(content))

\* categorizeText on the response the fetch produced.  A response is
\* [net, ok, json, choices, message, content]: whether fetch resolved, the
\* ok flag, whether the body decodes, the number of choices, whether the
\* first choice has a message, and its content (a token sequence or null).
categorizeText(apiKey, r) ==
    IF ~apiKey THEN Rejected
    ELSE IF ~r.net THEN Rejected
    ELSE IF ~r.ok THEN Rejected
    ELSE IF ~r.json THEN Rejected
    ELSE IF r.choices > 0
    THEN IF ~r.message THEN Rejected
         ELSE ParseContent(OrElse(r.content, Str(<<>>)).s)
    ELSE Rejected

\* ------------------------------------------------------------------ state

VARIABLES
    tz,         \* the device's UTC offset, in hours
    now,        \* the current instant
    apiKey,     \* whether EXPO_PUBLIC_OPENAI_API_KEY is set
    receiptColumn, \* whether table notes has the column receipt_image_url
    session,    \* the authenticated user, or NoUser
    users,      \* table users: its rows, in the order of their insertion
    ensure,     \* per sign-in handler: its position, its call of ensureUserInDatabase
    notes,      \* table notes: a function from the ids in the table to rows
    nextId,     \* the next identifier the store assigns
    edits,      \* the number of updates the store has applied
    changes,    \* change notifications of table notes not yet delivered
    screen,     \* the screen on top of the navigation stack
    add,        \* AddExpenseScreen: its state and the position of handleSave
    voice,      \* TranscriptionScreen: its state and its handlers' positions
    edit,       \* EditExpenseScreen: its state and its handlers' positions
    home,       \* HomeScreen: its state
    fetches,    \* the invocations of fetchNotes in flight
    del,        \* handleDeleteExpense in flight
    export,     \* handleExportCSV in flight
    trace,      \* per handler: the backend calls of its current invocation,
                \* whether one failed, whether an alert was shown
    fnArg,        \* the argument of a function called on its own, outside a handler
    fnResult,     \* what that call returned
    rec           \* RecordScreen: its state, its handlers' positions, the recorder
                  \* and the speech recognition

vars == <<tz, now, apiKey, receiptColumn, session, users, ensure, notes, nextId, edits,
          changes, screen, add, voice,
          edit, home, fetches, del, export, trace, fnArg, fnResult, rec>>

\* What no handler of the forms, the list and the sign-in changes: the
\* device's and the deployment's settings, the call of a function on its
\* own, and the record screen.
env == <<tz, now, apiKey, receiptColumn, fnArg, fnResult, rec>>

\* What only the sign-in handlers change.
acct == <<session, users, ensure>>

NoUser == "none"
Users == {"u1", "u2", "u0"}

\* The e-mail address of an auth user; u0 signed in without one.
EmailOf(u) == IF u = "u0" THEN JsNull ELSE Str(<<u, "@x">>)

NoteIds == 1..MaxNotes

\* ------------------------------------------------------------------ trace

Handlers ==
    {"add.handleSave", "transcription.handleCategorize", "transcription.handleSave",
     "edit.fetchExpense", "edit.handleSave", "edit.uploadImageToSupabase",
     "home.fetchNotes", "home.handleDeleteExpense", "home.handleExportCSV"}

NoTrace == [calls |-> <<>>, failed |-> FALSE, alerted |-> FALSE]

\* A backend call: its name and the columns its .eq() filters name.
Call(name, filter) == [call |-> name, filter |-> filter]

\* Whether an invocation of the handler is between two of its awaits.
InFlight(h) ==
    CASE h = "add.handleSave" -> add.pc # "idle"
      [] h = "transcription.handleCategorize" -> voice.pc = "categorize"
      [] h = "transcription.handleSave" -> voice.pc \in {"getUser", "insert"}
      [] h = "edit.fetchExpense" -> edit.lpc # "idle"
      [] h = "edit.handleSave" -> edit.pc # "idle"
      [] h = "edit.uploadImageToSupabase" -> edit.upc # "idle"
      [] h = "home.handleDeleteExpense" -> del.pc # "idle"
      [] h = "home.handleExportCSV" -> export.pc # "idle"
      [] OTHER -> FALSE

\* The trace keeps what the latest invocation of a handler did until
\* another invocation starts or settles.
Cleared(tr) == [h \in Handlers |-> IF InFlight(h) THEN tr[h] ELSE NoTrace]

Started(tr, h) == [Cleared(tr) EXCEPT ![h] = NoTrace]
\* A variant of Issued: the call is made again at once.
IssuedAgain(tr, h, c) == [tr EXCEPT ![h].calls = @ \o <<c, c>>]

Issued(tr, h, c) == [tr EXCEPT ![h].calls = Append(@, c)]
Failed(tr, h) == [tr EXCEPT ![h].failed = TRUE]
\* Alert.alert with an error title
Alerted(tr, h) == [tr EXCEPT ![h].alerted = TRUE]

\* ------------------------------------------------------------------ store

\* insert: the store assigns the id and created_at (its insertion order).
Inserted(ns, id, row) ==
    [i \in DOMAIN ns \cup {id} |->
        IF i = id
        THEN [id |-> id, user_id |-> row.user_id, email |-> row.email,
              amount |-> row.amount, date_of_transaction |-> row.date_of_transaction,
              description |-> row.description, category |-> row.category,
              transcript |-> row.transcript, receipt_image_url |-> JsNull,
              created_at |-> id]
        ELSE ns[i]]

\* One more change notification (the model keeps at most MaxChanges).
Notified(n) == IF n < MaxChanges THEN n + 1 ELSE n

\* supabase.auth.getUser(): the session's user, or an error.
GetUser(ok) ==
    IF ok /\ session # NoUser
    THEN [error |-> FALSE, id |-> session, email |-> EmailOf(session)]
    ELSE [error |-> TRUE, id |-> NoUser, email |-> JsNull]

\* The ids of the expenses the list shows.
ShownIds(groups) ==
    { groups[i].expenses[j].id : <<i, j>> \in
        { p \in (1..Len(groups)) \X NoteIds : p[2] <= Len(groups[p[1]].expenses) } }

\* No handler of the home list and no sign-in handler is in flight.
Settled ==
    /\ \A k \in DOMAIN fetches : fetches[k].pc = "idle"
    /\ del.pc = "idle"
    /\ export.pc = "idle"
    /\ \A c \in DOMAIN ensure : ensure[c].pc = "idle"

\* The user acts on the home list: it has the focus; a patient user waits
\* until the list has settled and the change notifications have arrived.
UserActs(P) ==
    /\ screen = "home"
    /\ ~home.focusDue
    /\ P.patient => (Settled /\ changes = 0)

\* The home list is on top again: its focus effect is due when it is mounted.
BackHome ==
    /\ screen' = "home"
    /\ home' = [home EXCEPT !.focusDue = home.mounted]

\* ------------------------------------------------------- AddExpenseScreen

AddInit ==
    [amount |-> <<>>, date |-> getTodayDate(now, tz), memo |-> Str(<<>>),
     category |-> Str(<<>>), isSaving |-> FALSE, error |-> FALSE,
     pc |-> "idle", req |-> JsNull]

\* router.push('/add-expense')
OpenAddExpense(P) ==
    /\ UserActs(P)
    /\ add.pc = "idle"
    /\ screen' = "add"
    /\ add' = AddInit
    /\ UNCHANGED <<env, acct, notes, nextId, edits, changes, voice, edit,
                   home, fetches, del, export, trace>>

\* onChangeText of the four rows of the form
AddChangeText(P) ==
    /\ screen = "add"
    /\ \/ \E t \in P.amountTexts : add' = [add EXCEPT !.amount = t]
       \/ \E t \in P.dateTexts : add' = [add EXCEPT !.date = t]
       \/ \E t \in P.memoTexts : add' = [add EXCEPT !.memo = t]
       \/ \E t \in P.categoryTexts : add' = [add EXCEPT !.category = t]
    /\ UNCHANGED <<env, acct, notes, nextId, edits, changes, screen, voice,
                   edit, home, fetches, del, export, trace>>

\* handleSave up to its first await: the amount is validated, and the
\* closure keeps the field values of the render the press came from.
AddPressSave ==
    /\ screen = "add"
    /\ ~add.isSaving
    /\ add.pc = "idle"
    /\ nextId \in NoteIds
    /\ IF NumericAmount(add.amount).n <= 0
       THEN /\ trace' = Alerted(Started(trace, "add.handleSave"), "add.handleSave")
            /\ add' = add
       ELSE /\ trace' = Issued(Started(trace, "add.handleSave"), "add.handleSave",
                               Call("auth.getUser", {}))
            /\ add' = [add EXCEPT !.isSaving = TRUE, !.error = FALSE, !.pc = "getUser",
                         !.req = [amount |-> NumericAmount(add.amount), date |-> add.date,
                                  memo |-> add.memo, category |-> add.category]]
    /\ UNCHANGED <<env, acct, notes, nextId, edits, changes, screen, voice,
                   edit, home, fetches, del, export>>

\* The row handleSave inserts for the user getUser returned.
AddRow(user, req) ==
    [user_id |-> user.id, email |-> user.email, amount |-> req.amount,
     date_of_transaction |-> DateStringOf(req.date, now, tz),
     description |-> OrElse(req.memo, JsNull),
     category |-> OrElse(req.category, JsNull),
     transcript |-> JsNull]

\* A variant of AddCaught: the finally block does not reset isSaving.
AddCaughtSaving(failed) ==
    /\ add' = [add EXCEPT !.error = TRUE, !.pc = "idle", !.req = JsNull]
    /\ trace' = Alerted(IF failed THEN Failed(trace, "add.handleSave") ELSE trace,
                        "add.handleSave")

\* The catch and finally blocks of handleSave.
AddCaught(failed) ==
    /\ add' = [add EXCEPT !.isSaving = FALSE, !.error = TRUE, !.pc = "idle", !.req = JsNull]
    /\ trace' = Alerted(IF failed THEN Failed(trace, "add.handleSave") ELSE trace,
                        "add.handleSave")

\* getUser resolves: the user is checked and the insert is issued.
AddGetUserDone(P) ==
    /\ add.pc = "getUser"
    /\ \E ok \in P.outcomes :
         LET user == GetUser(ok)
         IN  IF user.error \/ ~Truthy(user.email)
             THEN AddCaught(~ok)
             ELSE /\ add' = [add EXCEPT !.pc = "insert",
                                      !.req = [form |-> add.req, row |-> AddRow(user, add.req)]]
                  /\ trace' = Issued(trace, "add.handleSave", Call("notes.insert", {}))
    /\ UNCHANGED <<env, acct, notes, nextId, edits, changes, screen, voice,
                   edit, home, fetches, del, export>>

\* The insert resolves: on success the screen is replaced by the home list.
AddInsertDone(P) ==
    /\ add.pc = "insert"
    /\ \E ok \in P.outcomes :
         IF ok
         THEN /\ notes' = Inserted(notes, nextId, add.req.row)
              /\ nextId' = nextId + 1
              /\ edits' = edits
              /\ changes' = Notified(changes)
              /\ BackHome
              /\ add' = AddInit
              /\ trace' = trace
         ELSE /\ AddCaught(TRUE)
              /\ UNCHANGED <<notes, nextId, edits, changes, screen, home>>
    /\ UNCHANGED <<env, acct, voice, edit, fetches, del, export>>

\* router.back() of the Cancel button
AddCancel ==
    /\ screen = "add"
    /\ add.pc = "idle"
    /\ BackHome
    /\ add' = AddInit
    /\ UNCHANGED <<env, acct, notes, nextId, edits, changes, voice, edit,
                   fetches, del, export, trace>>

\* ---------------------------------------------------- TranscriptionScreen

VoiceInit(text) ==
    [text |-> text, expenseData |-> JsNull, isLoading |-> FALSE, isSaving |-> FALSE,
     error |-> FALSE, pc |-> "idle", req |-> JsNull, response |-> JsNull, settled |-> JsNull]

\* handleCategorize up to its await: the request is sent.
VoiceCategorizing(v) ==
    [v EXCEPT !.isLoading = TRUE, !.error = FALSE, !.pc = "categorize",
              !.response = JsNull, !.settled = JsNull]

\* The record screen pushes /transcription with the text; the mount effect
\* calls handleCategorize when the text is not empty.
OpenTranscription(P) ==
    /\ UserActs(P)
    /\ voice.pc = "idle"
    /\ screen' = "voice"
    /\ \E text \in P.transcripts :
         IF Truthy(text)
         THEN /\ voice' = VoiceCategorizing(VoiceInit(text))
              /\ trace' = Issued(Started(trace, "transcription.handleCategorize"),
                                 "transcription.handleCategorize", Call("openai.fetch", {}))
         ELSE /\ voice' = VoiceInit(text)
              /\ trace' = trace
    /\ UNCHANGED <<env, acct, notes, nextId, edits, changes, add, edit, home,
                   fetches, del, export>>

\* The date texts trim() empties are the blank ones.
Trimmed(v) == IF v.s # <<>> /\ v.s[1] = " " THEN <<>> ELSE v.s

\* A variant of ExpenseDataOf: the raw response becomes the memo.
ExpenseDataWithRawMemo(result, text) ==
    IF result.type = "object" /\ result.amount # JsUndefined
    THEN result
    ELSE [type |-> "object", amount |-> Num(0), date |-> getTodayDate(now, tz),
          memo |-> result, category |-> Str(<<"Uncategorized">>)]

\* The expenseData handleCategorize sets for the value categorizeText
\* resolved with.
ExpenseDataOf(result, text) ==
    IF result.type = "object" /\ result.amount # JsUndefined
    THEN IF \/ ~Truthy(result.date)
            \/ result.date = Str(<<"null">>)
            \/ (result.date.type = "string" /\ Trimmed(result.date) = <<>>)
         THEN [result EXCEPT !.date = getTodayDate(now, tz)]
         ELSE result
    ELSE [type |-> "object", amount |-> Num(0), date |-> getTodayDate(now, tz),
          memo |-> text,
          category |-> IF result.type = "string" THEN result ELSE Str(<<"Uncategorized">>)]

\* A variant of CategorizeDone: the catch block also sets the defaults of
\* the raw-string branch.
CategorizeDoneDefaults(P) ==
    /\ voice.pc = "categorize"
    /\ \E r \in P.responses :
         LET res == categorizeText(apiKey, r)
         IN  IF res.outcome = "resolved"
             THEN /\ voice' = [voice EXCEPT !.expenseData = ExpenseDataOf(res.value, voice.text),
                                            !.isLoading = FALSE, !.pc = "idle",
                                            !.response = r, !.settled = res]
                  /\ trace' = trace
             ELSE /\ voice' = [voice EXCEPT !.expenseData = ExpenseDataOf(JsNull, voice.text),
                                            !.error = TRUE, !.isLoading = FALSE, !.pc = "idle",
                                            !.response = r, !.settled = res]
                  /\ trace' = Failed(trace, "transcription.handleCategorize")
    /\ UNCHANGED <<env, acct, notes, nextId, edits, changes, screen, add, edit,
                   home, fetches, del, export>>

\* categorizeText settles: expenseData is set, or the error is.
CategorizeDone(P) ==
    /\ voice.pc = "categorize"
    /\ \E r \in P.responses :
         LET res == categorizeText(apiKey, r)
         IN  IF res.outcome = "resolved"
             THEN /\ voice' = [voice EXCEPT !.expenseData = ExpenseDataOf(res.value, voice.text),
                                            !.isLoading = FALSE, !.pc = "idle",
                                            !.response = r, !.settled = res]
                  /\ trace' = trace
             ELSE /\ voice' = [voice EXCEPT !.error = TRUE, !.isLoading = FALSE, !.pc = "idle",
                                            !.response = r, !.settled = res]
                  /\ trace' = Failed(trace, "transcription.handleCategorize")
    /\ UNCHANGED <<env, acct, notes, nextId, edits, changes, screen, add, edit,
                   home, fetches, del, export>>

\* The Retry button, shown with the error when nothing is loading.
VoiceRetry ==
    /\ screen = "voice"
    /\ voice.pc = "idle"
    /\ ~voice.isLoading /\ voice.error
    /\ Truthy(voice.text)
    /\ voice' = VoiceCategorizing(voice)
    /\ trace' = Issued(Started(trace, "transcription.handleCategorize"),
                       "transcription.handleCategorize", Call("openai.fetch", {}))
    /\ UNCHANGED <<env, acct, notes, nextId, edits, changes, screen, add, edit,
                   home, fetches, del, export>>

\* onChangeText of the four rows, shown when expenseData is set and there
\* is neither a load nor an error.
VoiceChangeText(P) ==
    /\ screen = "voice"
    /\ ~voice.isLoading /\ ~voice.error /\ voice.expenseData # JsNull
    /\ \/ \E t \in P.amountTexts :
            voice' = [voice EXCEPT !.expenseData.amount = NumericAmount(t)]
       \/ \E t \in P.dateTexts : voice' = [voice EXCEPT !.expenseData.date = t]
       \/ \E t \in P.memoTexts : voice' = [voice EXCEPT !.expenseData.memo = t]
       \/ \E t \in P.categoryTexts : voice' = [voice EXCEPT !.expenseData.category = t]
    /\ UNCHANGED <<env, acct, notes, nextId, edits, changes, screen, add, edit,
                   home, fetches, del, export, trace>>

\* handleSave up to its first await; the button is disabled while there is
\* no expenseData, a load or a save.
VoicePressSave ==
    /\ screen = "voice"
    /\ voice.pc = "idle"
    /\ voice.expenseData # JsNull /\ ~voice.isLoading /\ ~voice.isSaving
    /\ nextId \in NoteIds
    /\ IF voice.expenseData = JsNull \/ ~Truthy(voice.text)
       THEN /\ trace' = Alerted(Started(trace, "transcription.handleSave"),
                                "transcription.handleSave")
            /\ voice' = voice
       ELSE /\ trace' = Issued(Started(trace, "transcription.handleSave"),
                               "transcription.handleSave", Call("auth.getUser", {}))
            /\ voice' = [voice EXCEPT !.isSaving = TRUE, !.error = FALSE, !.pc = "getUser",
                                      !.req = voice.expenseData]
    /\ UNCHANGED <<env, acct, notes, nextId, edits, changes, screen, add, edit,
                   home, fetches, del, export>>

\* The row handleSave inserts for the user getUser returned.
VoiceRow(user, ed, text) ==
    [user_id |-> user.id, email |-> user.email,
     amount |-> Coalesce(ed.amount, Num(0)),
     date_of_transaction |-> DateStringOf(ed.date, now, tz),
     description |-> OrElse(ed.memo, JsNull),
     category |-> OrElse(ed.category, JsNull),
     transcript |-> text]

\* The catch and finally blocks of handleSave.
VoiceCaught(failed) ==
    /\ voice' = [voice EXCEPT !.isSaving = FALSE, !.error = TRUE, !.pc = "idle",
                              !.req = JsNull]
    /\ trace' = Alerted(IF failed THEN Failed(trace, "transcription.handleSave") ELSE trace,
                        "transcription.handleSave")

VoiceGetUserDone(P) ==
    /\ voice.pc = "getUser"
    /\ \E ok \in P.outcomes :
         LET user == GetUser(ok)
         IN  IF user.error \/ ~Truthy(user.email)
             THEN VoiceCaught(~ok)
             ELSE /\ voice' = [voice EXCEPT !.pc = "insert",
                                !.req = [form |-> voice.req,
                                         row |-> VoiceRow(user, voice.req, voice.text)]]
                  /\ trace' = Issued(trace, "transcription.handleSave",
                                     Call("notes.insert", {}))
    /\ UNCHANGED <<env, acct, notes, nextId, edits, changes, screen, add, edit,
                   home, fetches, del, export>>

VoiceInsertDone(P) ==
    /\ voice.pc = "insert"
    /\ \E ok \in P.outcomes :
         IF ok
         THEN /\ notes' = Inserted(notes, nextId, voice.req.row)
              /\ nextId' = nextId + 1
              /\ edits' = edits
              /\ changes' = Notified(changes)
              /\ BackHome
              /\ voice' = VoiceInit(Str(<<>>))
              /\ trace' = trace
         ELSE /\ VoiceCaught(TRUE)
              /\ UNCHANGED <<notes, nextId, edits, changes, screen, home>>
    /\ UNCHANGED <<env, acct, add, edit, fetches, del, export>>

\* router.back() of the Cancel button
VoiceCancel ==
    /\ screen = "voice"
    /\ voice.pc = "idle"
    /\ BackHome
    /\ voice' = VoiceInit(Str(<<>>))
    /\ UNCHANGED <<env, acct, notes, nextId, edits, changes, add, edit,
                   fetches, del, export, trace>>

\* ------------------------------------------------------ EditExpenseScreen

NoId == 0

EditInit(id) ==
    [id |-> id, isLoading |-> TRUE, isSaving |-> FALSE, error |-> FALSE,
     amount |-> <<>>, date |-> Str(<<>>), memo |-> Str(<<>>), category |-> Str(<<>>),
     receiptImageUri |-> JsNull, isUploadingImage |-> FALSE,
     lpc |-> "idle", pc |-> "idle", upc |-> "idle", req |-> JsNull, upUrl |-> JsNull]

\* router.push of /edit-expense with the id parameter (handleEditExpense
\* of a row of the list, or a link); the mount effect calls fetchExpense.
OpenEditExpense(P) ==
    /\ UserActs(P)
    /\ edit.lpc = "idle" /\ edit.pc = "idle" /\ edit.upc = "idle"
    /\ \E id \in ShownIds(home.expenseGroups) \cup P.routeIds :
         IF id = NoId
         THEN /\ BackHome
              /\ edit' = EditInit(NoId)
              /\ trace' = Alerted(Started(trace, "edit.fetchExpense"), "edit.fetchExpense")
         ELSE /\ screen' = "edit"
              /\ home' = home
              /\ edit' = [EditInit(id) EXCEPT !.lpc = "load"]
              /\ trace' = Issued(Started(trace, "edit.fetchExpense"), "edit.fetchExpense",
                                 Call("notes.select", {"id"}))
    /\ UNCHANGED <<env, acct, notes, nextId, edits, changes, add, voice, fetches,
                   del, export>>

\* The select of fetchExpense resolves: the form is filled from the row.
EditLoadDone(P) ==
    /\ edit.lpc = "load"
    /\ \E ok \in P.outcomes :
         IF ok /\ edit.id \in DOMAIN notes
         THEN LET note == notes[edit.id]
              IN  /\ edit' = [edit EXCEPT
                        !.amount = NumberToString(note.amount),
                        !.date = formatDateForDisplay(IsoText(note.date_of_transaction), tz),
                        !.memo = OrElse(note.description, Str(<<>>)),
                        !.category = OrElse(note.category, Str(<<>>)),
                        !.receiptImageUri = OrElse(note.receipt_image_url, JsNull),
                        !.isLoading = FALSE, !.lpc = "idle"]
                  /\ trace' = trace
         ELSE /\ edit' = [edit EXCEPT !.error = TRUE, !.isLoading = FALSE, !.lpc = "idle"]
              /\ trace' = Alerted(IF ok THEN trace ELSE Failed(trace, "edit.fetchExpense"),
                                  "edit.fetchExpense")
    /\ UNCHANGED <<env, acct, notes, nextId, edits, changes, screen, add, voice, home,
                   fetches, del, export>>

EditChangeText(P) ==
    /\ screen = "edit"
    /\ ~edit.isLoading
    /\ \/ \E t \in P.amountTexts : edit' = [edit EXCEPT !.amount = t]
       \/ \E t \in P.dateTexts : edit' = [edit EXCEPT !.date = t]
       \/ \E t \in P.memoTexts : edit' = [edit EXCEPT !.memo = t]
       \/ \E t \in P.categoryTexts : edit' = [edit EXCEPT !.category = t]
    /\ UNCHANGED <<env, acct, notes, nextId, edits, changes, screen, add, voice, home,
                   fetches, del, export, trace>>

\* The catch and finally blocks of uploadImageToSupabase.
UploadCaught(failed) ==
    /\ edit' = [edit EXCEPT !.receiptImageUri = JsNull, !.isUploadingImage = FALSE,
                            !.upc = "idle", !.upUrl = JsNull]
    /\ trace' = Alerted(IF failed THEN Failed(trace, "edit.uploadImageToSupabase") ELSE trace,
                        "edit.uploadImageToSupabase")

\* pickImage: the picker resolves; a picked asset's local URI is shown and
\* uploadImageToSupabase runs up to its first await.
PickImage(P) ==
    /\ screen = "edit"
    /\ ~edit.isLoading /\ ~edit.isUploadingImage /\ edit.upc = "idle"
    /\ \E r \in P.picks :
         CASE r.kind = "asset" ->
                /\ edit' = [edit EXCEPT !.receiptImageUri = r.uri, !.isUploadingImage = TRUE,
                                        !.upc = "getUser"]
                /\ trace' = Issued(Started(trace, "edit.uploadImageToSupabase"),
                                   "edit.uploadImageToSupabase", Call("auth.getUser", {}))
           [] r.kind = "error" ->
                /\ edit' = edit
                /\ trace' = Alerted(Started(trace, "edit.uploadImageToSupabase"),
                                    "edit.uploadImageToSupabase")
           [] OTHER -> edit' = edit /\ trace' = trace
    /\ UNCHANGED <<env, acct, notes, nextId, edits, changes, screen, add, voice, home,
                   fetches, del, export>>

\* getPublicUrl of the path receipts/<user id>/<note id>_<time>.<ext>
PublicUrl(uid) == Str(<<"https://", uid>>)

\* getUser resolves: the path is built from the user's id and the file is
\* read.
UploadGetUserDone(P) ==
    /\ edit.upc = "getUser"
    /\ \E ok \in P.outcomes :
         IF GetUser(ok).error \/ edit.id = NoId
         THEN UploadCaught(~ok)
         ELSE /\ edit' = [edit EXCEPT !.upc = "read", !.upUrl = PublicUrl(GetUser(ok).id)]
              /\ trace' = trace
    /\ UNCHANGED <<env, acct, notes, nextId, edits, changes, screen, add, voice, home,
                   fetches, del, export>>

\* fetch(imageUri) and blob() resolve: the upload is issued.
UploadReadDone(P) ==
    /\ edit.upc = "read"
    /\ \E ok \in P.outcomes :
         IF ok
         THEN /\ edit' = [edit EXCEPT !.upc = "upload"]
              /\ trace' = Issued(trace, "edit.uploadImageToSupabase",
                                 Call("storage.upload", {}))
         ELSE UploadCaught(TRUE)
    /\ UNCHANGED <<env, acct, notes, nextId, edits, changes, screen, add, voice, home,
                   fetches, del, export>>

\* The upload resolves: the public URL replaces the local URI, or the
\* image is cleared.
UploadDone(P) ==
    /\ edit.upc = "upload"
    /\ \E ok \in P.outcomes :
         IF ok
         THEN /\ \E hasUrl \in P.publicUrls :
                   edit' = [edit EXCEPT
                       !.receiptImageUri = IF hasUrl THEN edit.upUrl ELSE JsNull,
                       !.isUploadingImage = FALSE, !.upc = "idle", !.upUrl = JsNull]
              /\ trace' = trace
         ELSE UploadCaught(TRUE)
    /\ UNCHANGED <<env, acct, notes, nextId, edits, changes, screen, add, voice, home,
                   fetches, del, export>>

\* removeImage, confirmed with Remove
RemoveImage ==
    /\ screen = "edit"
    /\ ~edit.isLoading /\ ~edit.isUploadingImage
    /\ Truthy(edit.receiptImageUri)
    /\ edit' = [edit EXCEPT !.receiptImageUri = JsNull]
    /\ UNCHANGED <<env, acct, notes, nextId, edits, changes, screen, add, voice, home,
                   fetches, del, export, trace>>

\* handleSave up to its first await.
EditPressSave ==
    /\ screen = "edit"
    /\ ~edit.isLoading /\ ~edit.isSaving /\ edit.pc = "idle"
    /\ edits < MaxEdits
    /\ IF NumericAmount(edit.amount).n <= 0 \/ edit.id = NoId
       THEN /\ trace' = Alerted(Started(trace, "edit.handleSave"), "edit.handleSave")
            /\ edit' = edit
       ELSE /\ trace' = Issued(Started(trace, "edit.handleSave"), "edit.handleSave",
                               Call("auth.getUser", {}))
            /\ edit' = [edit EXCEPT !.isSaving = TRUE, !.error = FALSE, !.pc = "getUser",
                          !.req = [amount |-> NumericAmount(edit.amount), date |-> edit.date,
                                   memo |-> edit.memo, category |-> edit.category,
                                   receiptImageUri |-> edit.receiptImageUri]]
    /\ UNCHANGED <<env, acct, notes, nextId, edits, changes, screen, add, voice, home,
                   fetches, del, export>>

\* A variant of IsValidImageUrl that takes every URI.
IsAnyImageUri(uri) == Truthy(uri)

\* receiptImageUri && (startsWith('http://') || startsWith('https://'))
IsValidImageUrl(uri) == Truthy(uri) /\ uri.s[1] \in {"http://", "https://"}

\* updateData: receipt_image_url is JsUndefined when the key is left out.
UpdateData(req) ==
    [amount |-> req.amount,
     date_of_transaction |-> DateStringOf(req.date, now, tz),
     description |-> OrElse(req.memo, JsNull),
     category |-> OrElse(req.category, JsNull),
     receipt_image_url |->
         IF IsValidImageUrl(req.receiptImageUri) THEN req.receiptImageUri
         ELSE IF req.receiptImageUri = JsNull THEN JsNull
         ELSE JsUndefined]

\* A variant of Updated: the update also writes the user's e-mail address.
UpdatedWithEmail(ns, id, data) ==
    [i \in DOMAIN ns |->
        IF i = id
        THEN [ns[i] EXCEPT !.amount = data.amount, !.email = Str(<<"edited">>)]
        ELSE ns[i]]

\* update(data).eq('id', id): the keys of data are written to the row.
Updated(ns, id, data) ==
    [i \in DOMAIN ns |->
        IF i = id
        THEN [ns[i] EXCEPT
                !.amount = data.amount,
                !.date_of_transaction = data.date_of_transaction,
                !.description = data.description,
                !.category = data.category,
                !.receipt_image_url =
                    IF data.receipt_image_url = JsUndefined THEN @
                    ELSE data.receipt_image_url]
        ELSE ns[i]]

\* The catch and finally blocks of handleSave.
EditCaught(failed) ==
    /\ edit' = [edit EXCEPT !.isSaving = FALSE, !.error = TRUE, !.pc = "idle", !.req = JsNull]
    /\ trace' = Alerted(IF failed THEN Failed(trace, "edit.handleSave") ELSE trace,
                        "edit.handleSave")

\* getUser resolves: the update is issued.
EditGetUserDone(P) ==
    /\ edit.pc = "getUser"
    /\ \E ok \in P.outcomes :
         IF GetUser(ok).error
         THEN EditCaught(~ok)
         ELSE /\ edit' = [edit EXCEPT !.pc = "update",
                            !.req = [form |-> edit.req, data |-> UpdateData(edit.req),
                                     isValidImageUrl |-> IsValidImageUrl(edit.req.receiptImageUri)]]
              /\ trace' = Issued(trace, "edit.handleSave", Call("notes.update", {"id"}))
    /\ UNCHANGED <<env, acct, notes, nextId, edits, changes, screen, add, voice, home,
                   fetches, del, export>>

\* The effect of a successful update on the store, and router.back().
EditSaved(data) ==
    /\ notes' = Updated(notes, edit.id, data)
    /\ edits' = edits + 1
    /\ changes' = IF edit.id \in DOMAIN notes THEN Notified(changes) ELSE changes
    /\ BackHome
    /\ edit' = EditInit(NoId)

\* The update resolves.  An update that names receipt_image_url fails, with
\* that name in its message, when the table has no such column; handleSave
\* then issues the update again without it.
EditUpdateDone(P) ==
    /\ edit.pc = "update"
    /\ \E ok \in P.outcomes :
         IF ~ok
         THEN EditCaught(TRUE) /\ UNCHANGED <<notes, edits, changes, screen, home>>
         ELSE IF edit.req.data.receipt_image_url # JsUndefined /\ ~receiptColumn
         THEN /\ edit' = [edit EXCEPT !.pc = "retry",
                                      !.req.data.receipt_image_url = JsUndefined]
              /\ trace' = Issued(Failed(trace, "edit.handleSave"), "edit.handleSave",
                                 Call("notes.update", {"id"}))
              /\ UNCHANGED <<notes, edits, changes, screen, home>>
         ELSE EditSaved(edit.req.data) /\ trace' = trace
    /\ UNCHANGED <<env, acct, nextId, add, voice, fetches, del, export>>

\* The second update resolves; with a valid image URL an alert tells that
\* the image was not saved, and its OK button goes back.
EditRetryDone(P) ==
    /\ edit.pc = "retry"
    /\ \E ok \in P.outcomes :
         IF ~ok
         THEN EditCaught(TRUE) /\ UNCHANGED <<notes, edits, changes, screen, home>>
         ELSE /\ EditSaved(edit.req.data)
              /\ trace' = IF edit.req.isValidImageUrl
                          THEN Alerted(trace, "edit.handleSave") ELSE trace
    /\ UNCHANGED <<env, acct, nextId, add, voice, fetches, del, export>>

\* router.back() of the Cancel button
EditCancel ==
    /\ screen = "edit"
    /\ edit.lpc = "idle" /\ edit.pc = "idle" /\ edit.upc = "idle"
    /\ BackHome
    /\ edit' = EditInit(NoId)
    /\ UNCHANGED <<env, acct, notes, nextId, edits, changes, add, voice,
                   fetches, del, export, trace>>

\* ------------------------------------------------------------- HomeScreen

\* At most MaxFetch invocations of fetchNotes are in flight.
FetchSlots == 1..MaxFetch

MonthNames ==
    <<"JANUARY", "FEBRUARY", "MARCH", "APRIL", "MAY", "JUNE", "JULY", "AUGUST",
      "SEPTEMBER", "OCTOBER", "NOVEMBER", "DECEMBER">>

\* monthOrder[name]
MonthOrder(name) == CHOOSE i \in 1..Len(MonthNames) : MonthNames[i] = name

\* The rows of user uid, ordered by date_of_transaction, newest first
\* (rows of one date in the order of their ids).
Before(a, b) ==
    \/ DayNumber(a.date_of_transaction) > DayNumber(b.date_of_transaction)
    \/ (a.date_of_transaction = b.date_of_transaction /\ a.id < b.id)

RECURSIVE Ordered(_)
Ordered(rows) ==
    IF rows = {} THEN <<>>
    ELSE LET first == CHOOSE r \in rows : \A o \in rows \ {r} : Before(r, o)
         IN  <<first>> \o Ordered(rows \ {first})

\* A variant of SelectNotes without the filter on user_id.
SelectEveryNote(ns, uid) == Ordered({ ns[i] : i \in DOMAIN ns })

\* select('*').eq('user_id', uid).order('date_of_transaction', {ascending: false})
SelectNotes(ns, uid) == Ordered({ ns[i] : i \in { j \in DOMAIN ns : ns[j].user_id = uid } })

\* The expense of a note, and the month and year of its group.
ExpenseOf(note, zone) ==
    LET c == LocalCivil(NewDate(IsoText(note.date_of_transaction), zone), zone)
    IN  [month |-> MonthNames[c.m], year |-> c.y,
         expense |-> [id |-> note.id, day |-> c.d, month |-> c.m,
                      description |-> OrElse(OrElse(note.description, note.transcript),
                                             Str(<<"No description">>)),
                      amount |-> note.amount]]

\* A variant of Grouped: every note opens a group.
RECURSIVE GroupedApart(_, _, _)
GroupedApart(rows, acc, zone) ==
    IF rows = <<>> THEN acc
    ELSE GroupedApart(Tail(rows),
                      Append(acc, [month |-> ExpenseOf(Head(rows), zone).month,
                                   year |-> ExpenseOf(Head(rows), zone).year,
                                   expenses |-> <<ExpenseOf(Head(rows), zone).expense>>]),
                      zone)

\* The reduce: a note joins the group of its key, or opens one.
RECURSIVE Grouped(_, _, _)
Grouped(rows, acc, zone) ==
    IF rows = <<>> THEN acc
    ELSE LET e == ExpenseOf(Head(rows), zone)
             at == { i \in 1..Len(acc) : acc[i].month = e.month /\ acc[i].year = e.year }
         IN  IF at = {}
             THEN Grouped(Tail(rows),
                          Append(acc, [month |-> e.month, year |-> e.year,
                                       expenses |-> <<e.expense>>]), zone)
             ELSE Grouped(Tail(rows),
                          [acc EXCEPT ![CHOOSE i \in at : TRUE].expenses =
                                          Append(@, e.expense)], zone)

\* A variant of CompareGroups that compares the years only.
CompareYears(a, b) == b.year - a.year

\* The comparator of the sort: negative when a comes first.
CompareGroups(a, b) ==
    IF a.year # b.year THEN b.year - a.year
    ELSE MonthOrder(b.month) - MonthOrder(a.month)

\* Array.prototype.sort, a stable insertion of each element in turn.
RECURSIVE InsertGroup(_, _)
InsertGroup(sorted, g) ==
    IF sorted = <<>> THEN <<g>>
    ELSE IF CompareGroups(g, Head(sorted)) < 0 THEN <<g>> \o sorted
    ELSE <<Head(sorted)>> \o InsertGroup(Tail(sorted), g)

RECURSIVE SortGroups(_, _)
SortGroups(gs, sorted) ==
    IF gs = <<>> THEN sorted ELSE SortGroups(Tail(gs), InsertGroup(sorted, Head(gs)))

transformNotesToExpenseGroups(rows, zone) == SortGroups(Grouped(rows, <<>>, zone), <<>>)

HomeInit ==
    [mounted |-> FALSE, subscribed |-> FALSE, focusDue |-> FALSE, loading |-> TRUE,
     expenseGroups |-> <<>>]

IdleFetch ==
    [pc |-> "idle", by |-> "", uid |-> NoUser, rows |-> <<>>, calls |-> <<>>, live |-> FALSE]

\* A variant of FetchStarted: nothing is started.
FetchNotStarted(fs, k, by, live) == fs

\* fetchNotes up to its first await, in slot k; by names the caller, live
\* tells whether the component whose closure runs is mounted (the state
\* setters of an unmounted component do nothing).
FetchStarted(fs, k, by, live) ==
    [fs EXCEPT ![k] = [IdleFetch EXCEPT !.pc = "getUser", !.by = by, !.live = live,
                                        !.calls = <<Call("auth.getUser", {})>>]]

FreeSlots == { k \in FetchSlots : fetches[k].pc = "idle" }
FreeSlot == CHOOSE k \in FreeSlots : \A o \in FreeSlots : k <= o

\* The mounted HomeScreen: the channel is subscribed, the mount effect has
\* called fetchNotes, the focus effect is due.
Mounted ==
    [mounted |-> TRUE, subscribed |-> TRUE, focusDue |-> TRUE, loading |-> TRUE,
     expenseGroups |-> <<>>]

\* The focus effect: fetchNotes()
HomeFocus ==
    /\ screen = "home"
    /\ home.focusDue
    /\ FreeSlots # {}
    /\ home' = [home EXCEPT !.focusDue = FALSE, !.loading = TRUE]
    /\ fetches' = FetchStarted(fetches, FreeSlot, "focus", TRUE)
    /\ UNCHANGED <<env, acct, notes, nextId, edits, changes, screen, add, voice, edit,
                   del, export, trace>>

\* A change notification of table notes is delivered: the callback of the
\* subscription calls fetchNotes(); without a subscription nothing runs.
ChangeDelivered ==
    /\ changes > 0
    /\ home.subscribed => FreeSlots # {}
    /\ changes' = changes - 1
    /\ IF home.subscribed
       THEN /\ home' = [home EXCEPT !.loading = TRUE]
            /\ fetches' = FetchStarted(fetches, FreeSlot, "change", TRUE)
       ELSE UNCHANGED <<home, fetches>>
    /\ UNCHANGED <<env, acct, notes, nextId, edits, screen, add, voice, edit,
                   del, export, trace>>

\* fetchNotes returns: the finally block, and what the invocation did.
FetchSettled(k, groups, failed) ==
    /\ home' = IF fetches[k].live
               THEN [home EXCEPT !.expenseGroups = groups, !.loading = FALSE]
               ELSE home
    /\ trace' = [Cleared(trace) EXCEPT !["home.fetchNotes"] =
                    [calls |-> fetches[k].calls, failed |-> failed, alerted |-> FALSE]]
    /\ fetches' = [fetches EXCEPT ![k] = IdleFetch]

\* getUser resolves: the list is cleared, or the select is issued.
FetchGetUserDone(P) ==
    \E k \in FetchSlots :
        /\ fetches[k].pc = "getUser"
        /\ \E ok \in P.outcomes :
             LET user == GetUser(ok)
             IN  IF user.error
                 THEN FetchSettled(k, <<>>, ~ok)
                 ELSE /\ fetches' = [fetches EXCEPT
                            ![k].pc = "select", ![k].uid = user.id,
                            ![k].calls = Append(@, Call("notes.select", {"user_id"}))]
                      /\ UNCHANGED <<home, trace>>
        /\ UNCHANGED <<env, acct, notes, nextId, edits, changes, screen, add, voice, edit,
                       del, export>>

\* The store answers the select with the rows it holds at that moment.
FetchServed ==
    \E k \in FetchSlots :
        /\ fetches[k].pc = "select"
        /\ fetches' = [fetches EXCEPT ![k].pc = "response",
                                      ![k].rows = SelectNotes(notes, fetches[k].uid)]
        /\ UNCHANGED <<env, acct, notes, nextId, edits, changes, screen, add, voice, edit,
                       home, del, export, trace>>

\* The answer arrives: the groups are set, or the list is cleared.
FetchSelectDone(P) ==
    \E k \in FetchSlots :
        /\ fetches[k].pc = "response"
        /\ \E ok \in P.outcomes :
             FetchSettled(k, IF ok THEN transformNotesToExpenseGroups(fetches[k].rows, tz)
                             ELSE <<>>, ~ok)
        /\ UNCHANGED <<env, acct, notes, nextId, edits, changes, screen, add, voice, edit,
                       del, export>>

IdleDelete == [pc |-> "idle", id |-> NoId, live |-> FALSE]

\* handleDeleteExpense of a row the list shows, up to its await.
PressDelete(P) ==
    /\ UserActs(P)
    /\ ~home.loading
    /\ del.pc = "idle"
    /\ \E id \in ShownIds(home.expenseGroups) :
         del' = [pc |-> "delete", id |-> id, live |-> TRUE]
    /\ trace' = Issued(Started(trace, "home.handleDeleteExpense"),
                       "home.handleDeleteExpense", Call("notes.delete", {"id"}))
    /\ UNCHANGED <<env, acct, notes, nextId, edits, changes, screen, add, voice, edit,
                   home, fetches, export>>

\* A variant of Deleted: the filter matches no row.
DeletedNone(ns, id) == ns

\* delete().eq('id', id)
Deleted(ns, id) == [i \in DOMAIN ns \ {id} |-> ns[i]]

\* The delete resolves: the list is fetched again, or an alert is shown.
DeleteDone(P) ==
    /\ del.pc = "delete"
    /\ \E ok \in P.outcomes :
         IF ok
         THEN /\ FreeSlots # {}
              /\ notes' = Deleted(notes, del.id)
              /\ changes' = IF del.id \in DOMAIN notes THEN Notified(changes) ELSE changes
              /\ fetches' = FetchStarted(fetches, FreeSlot, "delete", del.live)
              /\ home' = IF del.live THEN [home EXCEPT !.loading = TRUE] ELSE home
              /\ trace' = trace
         ELSE /\ trace' = Alerted(Failed(trace, "home.handleDeleteExpense"),
                                  "home.handleDeleteExpense")
              /\ UNCHANGED <<notes, changes, fetches, home>>
    /\ del' = IdleDelete
    /\ UNCHANGED <<env, acct, nextId, edits, screen, add, voice, edit, export>>

\* String(value) of a column of a row.
IsoChars(c) ==
    NatDigits(c.y) \o <<"-">> \o (IF c.m < 10 THEN <<"0">> ELSE <<>>) \o NatDigits(c.m)
        \o <<"-">> \o (IF c.d < 10 THEN <<"0">> ELSE <<>>) \o NatDigits(c.d)

Contains(txt, ch) == \E i \in 1..Len(txt) : txt[i] = ch

RECURSIVE DoubledQuotes(_)
DoubledQuotes(txt) ==
    IF txt = <<>> THEN <<>>
    ELSE (IF Head(txt) = "\"" THEN <<"\"", "\"">> ELSE <<Head(txt)>>)
             \o DoubledQuotes(Tail(txt))

\* escapeCSV of the text of a value (null and undefined give the empty text)
escapeCSV(value) ==
    LET stringValue == IF value.type = "string" THEN value.s ELSE <<>>
    IN  IF Contains(stringValue, ",") \/ Contains(stringValue, "\"")
           \/ Contains(stringValue, "\n")
        THEN <<"\"">> \o DoubledQuotes(stringValue) \o <<"\"">>
        ELSE stringValue

csvHeader ==
    <<"ID", "Date", "Amount", "Description", "Category", "Transcript", "Email", "Created At">>

\* The fields of the line of a note.
CsvRow(note) ==
    <<escapeCSV(Str(NatDigits(note.id))),
      escapeCSV(Str(IsoChars(note.date_of_transaction))),
      escapeCSV(Str(NumberToString(note.amount))),
      escapeCSV(note.description),
      escapeCSV(note.category),
      escapeCSV(note.transcript),
      escapeCSV(note.email),
      escapeCSV(Str(NatDigits(note.created_at)))>>

\* csvContent: the header and the lines of the notes
CsvContent(rows) == <<csvHeader>> \o [i \in 1..Len(rows) |-> CsvRow(rows[i])]

\* Array.prototype.join
RECURSIVE Joined(_, _)
Joined(parts, sep) ==
    IF parts = <<>> THEN <<>>
    ELSE IF Len(parts) = 1 THEN parts[1]
    ELSE parts[1] \o sep \o Joined(Tail(parts), sep)

\* csvContent as the text that is written: csvHeader + csvRows.join('\n'),
\* each line its fields joined by commas.
CsvText(rows) ==
    Joined([j \in 1..Len(csvHeader) |-> <<csvHeader[j]>>], <<",">>) \o <<"\n">>
        \o Joined([i \in 1..Len(rows) |-> Joined(CsvRow(rows[i]), <<",">>)], <<"\n">>)

IdleExport == [pc |-> "idle", csv |-> <<>>, text |-> <<>>, live |-> FALSE]

\* The catch and finally blocks of handleExportCSV.
ExportSettled(failed, alerted) ==
    /\ export' = IdleExport
    /\ home' = IF export.live THEN [home EXCEPT !.loading = FALSE] ELSE home
    /\ trace' = LET t == IF failed THEN Failed(trace, "home.handleExportCSV") ELSE trace
                IN  IF alerted THEN Alerted(t, "home.handleExportCSV") ELSE t

\* handleExportCSV up to its first await; the button is disabled while
\* the list loads.
PressExport(P) ==
    /\ UserActs(P)
    /\ ~home.loading
    /\ export.pc = "idle"
    /\ export' = [IdleExport EXCEPT !.pc = "getUser", !.live = TRUE]
    /\ home' = [home EXCEPT !.loading = TRUE]
    /\ trace' = Issued(Started(trace, "home.handleExportCSV"), "home.handleExportCSV",
                       Call("auth.getUser", {}))
    /\ UNCHANGED <<env, acct, notes, nextId, edits, changes, screen, add, voice, edit,
                   fetches, del>>

\* getUser resolves: the select is issued for the user's id.
ExportGetUserDone(P) ==
    /\ export.pc = "getUser"
    /\ \E ok \in P.outcomes :
         LET user == GetUser(ok)
         IN  IF user.error
             THEN ExportSettled(~ok, TRUE)
             ELSE /\ export' = [export EXCEPT !.pc = "select",
                                  !.csv = CsvContent(SelectNotes(notes, user.id)),
                                  !.text = CsvText(SelectNotes(notes, user.id))]
                  /\ trace' = Issued(trace, "home.handleExportCSV",
                                     Call("notes.select", {"user_id"}))
                  /\ home' = home
    /\ UNCHANGED <<env, acct, notes, nextId, edits, changes, screen, add, voice, edit,
                   fetches, del>>

\* The select resolves: the file is written when there are rows.
ExportSelectDone(P) ==
    /\ export.pc = "select"
    /\ \E ok \in P.outcomes :
         IF ~ok THEN ExportSettled(TRUE, TRUE)
         ELSE IF Len(export.csv) = 1 THEN ExportSettled(FALSE, TRUE)
         ELSE /\ export' = [export EXCEPT !.pc = "write"]
              /\ trace' = Issued(trace, "home.handleExportCSV", Call("file.write", {}))
              /\ home' = home
    /\ UNCHANGED <<env, acct, notes, nextId, edits, changes, screen, add, voice, edit,
                   fetches, del>>

\* writeAsStringAsync, isAvailableAsync and shareAsync resolve.
ExportWriteDone(P) ==
    /\ export.pc = "write"
    /\ \E ok \in P.outcomes : ExportSettled(~ok, ~ok)
    /\ UNCHANGED <<env, acct, notes, nextId, edits, changes, screen, add, voice, edit,
                   fetches, del>>


\* ------------------------------------------------- sign-in, table users

\* The handlers that set a session and call ensureUserInDatabase: the
\* Apple button and the deep-link effect of AuthScreen, and AuthCallback.
Callers == {"handleAppleSignIn", "createSessionFromUrl", "handleCallback"}

\* The authMethod the caller passes.
AuthMethodOf(c) == IF c = "handleAppleSignIn" THEN "apple" ELSE "google"

EnsureInit == [pc |-> "idle", user |-> JsNull, returned |-> JsNull]

\* A variant of UsersInsert for a table without a primary key.
UsersInsertUnchecked(tbl, row) == [error |-> "", table |-> Append(tbl, row)]

\* insert into users: the primary key refuses a second row of an id
\* (error 23505).
UsersInsert(tbl, row) ==
    IF \E i \in 1..Len(tbl) : tbl[i].id = row.id
    THEN [error |-> "23505", table |-> tbl]
    ELSE [error |-> "", table |-> Append(tbl, row)]

\* A variant of EnsureSettled for a body without the try/catch.
EnsureRethrows(thrown) == IF thrown THEN "rejected" ELSE "resolved"

\* How the promise of ensureUserInDatabase settles: the whole body is in a
\* try block whose catch logs what was thrown and falls through.
EnsureSettled(thrown) == "resolved"

\* ensureUserInDatabase returns or throws inside its try block, and the
\* caller that awaits it goes on; returned tells for whom the call ran,
\* whether it found the row or its insert was answered, the error code of
\* the insert and how the promise settled.
EnsureReturned(c, uid, clean, code) ==
    ensure' = [ensure EXCEPT ![c].pc = "navigate", ![c].user = JsNull,
                   ![c].returned = [uid |-> uid, clean |-> clean, code |-> code,
                                    outcome |-> EnsureSettled(code = "failed")]]

\* signInWithIdToken / setSession resolves: with a session the handler
\* calls ensureUserInDatabase; AuthCallback shows an alert otherwise.
SignInStart(P) ==
    \E c \in P.callers :
        /\ ensure[c].pc = "idle"
        /\ screen \in (IF c = "handleCallback" THEN P.linkScreens ELSE {"auth"})
        /\ P.patient => Settled
        /\ \E u \in P.users, ok \in P.outcomes :
             IF ok
             THEN /\ session' = u
                  /\ ensure' = [ensure EXCEPT ![c].pc = "getUser"]
             ELSE /\ session' = session
                  /\ ensure' = [ensure EXCEPT
                         ![c].pc = IF c = "handleCallback" THEN "alert" ELSE "idle"]
        /\ UNCHANGED <<env, users, notes, nextId, edits, changes, screen, add, voice, edit,
                       home, fetches, del, export, trace>>

\* getUser resolves: without a user or an e-mail address the call returns.
EnsureGetUserDone(P) ==
    \E c \in P.callers :
        /\ ensure[c].pc = "getUser"
        /\ \E ok \in P.outcomes :
             LET user == GetUser(ok)
             IN  IF user.error \/ ~Truthy(user.email)
                 THEN EnsureReturned(c, user.id, FALSE, "")
                 ELSE ensure' = [ensure EXCEPT ![c].pc = "select",
                                    ![c].user = [id |-> user.id, email |-> user.email]]
        /\ UNCHANGED <<env, session, users, notes, nextId, edits, changes, screen, add, voice,
                       edit, home, fetches, del, export, trace>>

\* select('id').eq('id', user.id).single() resolves: the insert is issued
\* when it gave no row.
EnsureSelectDone(P) ==
    \E c \in P.callers :
        /\ ensure[c].pc = "select"
        /\ \E ok \in P.outcomes :
             LET existingUser == ok /\ \E i \in 1..Len(users) : users[i].id = ensure[c].user.id
             IN  IF existingUser
                 THEN EnsureReturned(c, ensure[c].user.id, TRUE, "")
                 ELSE ensure' = [ensure EXCEPT ![c].pc = "insert"]
        /\ UNCHANGED <<env, session, users, notes, nextId, edits, changes, screen, add, voice,
                       edit, home, fetches, del, export, trace>>

\* The insert resolves; error 23505 is logged, another error is thrown and
\* caught by the function itself.
EnsureInsertDone(P) ==
    \E c \in P.callers :
        /\ ensure[c].pc = "insert"
        /\ \E ok \in P.outcomes :
             LET res == UsersInsert(users, [id |-> ensure[c].user.id,
                                            email |-> ensure[c].user.email,
                                            auth_method |-> AuthMethodOf(c)])
             IN  IF ok
                 THEN /\ users' = res.table
                      /\ EnsureReturned(c, ensure[c].user.id, TRUE, res.error)
                 ELSE /\ users' = users
                      /\ EnsureReturned(c, ensure[c].user.id, FALSE, "failed")
        /\ UNCHANGED <<env, session, notes, nextId, edits, changes, screen, add, voice,
                       edit, home, fetches, del, export, trace>>

\* The await of ensureUserInDatabase is over. When it resolved, the
\* caller calls router.replace('/(tabs)/'): the home list is shown, and it
\* mounts when it is not mounted. A rejection goes to the caller's catch:
\* an alert in handleAppleSignIn and in AuthCallback, a log in the
\* deep-link effect.
SignInNavigate(P) ==
    \E c \in P.callers :
        /\ ensure[c].pc = "navigate"
        /\ home.mounted \/ FreeSlots # {}
        /\ IF ensure[c].returned.outcome = "resolved"
           THEN /\ ensure' = [ensure EXCEPT ![c] = EnsureInit]
                /\ screen' = "home"
                /\ IF home.mounted
                   THEN /\ home' = [home EXCEPT !.focusDue = @ \/ screen # "home"]
                        /\ fetches' = fetches
                   ELSE /\ home' = Mounted
                        /\ fetches' = FetchStarted(fetches, FreeSlot, "mount", TRUE)
           ELSE /\ ensure' = [ensure EXCEPT ![c] =
                       [EnsureInit EXCEPT !.pc = IF c = "handleCallback" THEN "alert" ELSE "idle"]]
                /\ UNCHANGED <<screen, home, fetches>>
        /\ UNCHANGED <<env, session, users, notes, nextId, edits, changes, add, voice, edit,
                       del, export, trace>>

\* The OK button of the alert of AuthCallback: router.replace('/') shows
\* the sign-in screen; HomeScreen unmounts and its effect's cleanup
\* unsubscribes.
CallbackAlertOk ==
    /\ ensure["handleCallback"].pc = "alert"
    /\ ensure' = [ensure EXCEPT !["handleCallback"].pc = "idle"]
    /\ screen' = "auth"
    /\ home' = HomeInit
    /\ fetches' = [k \in FetchSlots |-> [fetches[k] EXCEPT !.live = FALSE]]
    /\ del' = [del EXCEPT !.live = FALSE]
    /\ export' = [export EXCEPT !.live = FALSE]
    /\ UNCHANGED <<env, session, users, notes, nextId, edits, changes, add, voice, edit, trace>>

\* ----------------------------------------------------------- RecordScreen
\* chain is the position of the mount effect's async function, auto and mic
\* those of the startRecording it and handleMicPress called, stop that of a
\* stopRecording at await audioRecorder.stop().  recording and listening
\* tell whether the recorder records and the speech recognition runs;
\* isRecording is recorderState.isRecording as the latest render saw it.

RecordInit ==
    [mounted |-> FALSE, left |-> FALSE, chain |-> "idle", auto |-> "idle", mic |-> "idle",
     stop |-> "idle", recording |-> FALSE, listening |-> FALSE, finalDue |-> FALSE,
     isRecording |-> FALSE, transcription |-> Str(<<>>), isStopped |-> FALSE, takes |-> 0]

\* What the speech recognition hears of the recording number n.
Heard(n) == Str(<<"take", n>>)

\* router.push('/record') of the home list: the screen mounts and its mount
\* effect requests the permission to record.
OpenRecord(P) ==
    /\ UserActs(P)
    /\ rec = RecordInit
    /\ screen' = "record"
    /\ rec' = [RecordInit EXCEPT !.mounted = TRUE, !.chain = "audioPermission"]
    /\ UNCHANGED <<tz, now, apiKey, receiptColumn, fnArg, fnResult, acct, notes, nextId,
                   edits, changes, add, voice, edit, home, fetches, del, export, trace>>

\* What the actions of the record screen leave alone.
RecordFrame ==
    UNCHANGED <<tz, now, apiKey, receiptColumn, fnArg, fnResult, acct, notes, nextId,
                edits, changes, screen, add, voice, edit, home, fetches, del, export, trace>>

\* requestRecordingPermissionsAsync resolves, granted or not.
AudioPermissionDone(P) ==
    /\ rec.chain = "audioPermission"
    /\ \E granted \in P.outcomes :
         rec' = [rec EXCEPT !.chain = IF granted THEN "speechPermission" ELSE "idle"]
    /\ RecordFrame

\* requestPermissionsAsync of the speech recognition resolves, granted or
\* not; setAudioModeAsync is called when it was granted.
SpeechPermissionDone(P) ==
    /\ rec.chain = "speechPermission"
    /\ \E granted \in P.outcomes :
         rec' = [rec EXCEPT !.chain = IF granted THEN "audioMode" ELSE "idle"]
    /\ RecordFrame

\* setAudioModeAsync settles: startRecording() is called when it resolved,
\* up to its await of prepareToRecordAsync.
AudioModeDone(P) ==
    /\ rec.chain = "audioMode"
    /\ \E ok \in P.outcomes :
         rec' = [rec EXCEPT !.chain = "idle", !.auto = IF ok THEN "prepare" ELSE "idle"]
    /\ RecordFrame

\* A variant of RecordingStarted: the transcription of the recording before
\* is kept.
RecordingStartedKeepingText(r, speech) ==
    [r EXCEPT !.recording = TRUE, !.takes = @ + 1,
              !.isStopped = IF r.mounted THEN FALSE ELSE @,
              !.listening = speech \/ @, !.finalDue = FALSE]

\* startRecording after prepareToRecordAsync resolved: the recorder records,
\* the transcription and the stopped state are reset (the setters of an
\* unmounted component do nothing), and the speech recognition starts
\* unless its start throws.
RecordingStarted(r, speech) ==
    [r EXCEPT !.recording = TRUE, !.takes = @ + 1,
              !.transcription = IF r.mounted THEN Str(<<>>) ELSE @,
              !.isStopped = IF r.mounted THEN FALSE ELSE @,
              !.listening = speech \/ @, !.finalDue = FALSE]

\* prepareToRecordAsync of the startRecording of the mount effect settles.
AutoStartDone(P) ==
    /\ rec.auto = "prepare"
    /\ \E ok \in P.outcomes, speech \in P.outcomes :
         rec' = [(IF ok THEN RecordingStarted(rec, speech) ELSE rec) EXCEPT !.auto = "idle"]
    /\ RecordFrame

\* prepareToRecordAsync of the startRecording of handleMicPress settles.
MicStartDone(P) ==
    /\ rec.mic = "prepare"
    /\ \E ok \in P.outcomes, speech \in P.outcomes :
         rec' = [(IF ok THEN RecordingStarted(rec, speech) ELSE rec) EXCEPT !.mic = "idle"]
    /\ RecordFrame

\* useAudioRecorderState: the component renders with the recorder's status.
RecorderStatus ==
    /\ rec.mounted
    /\ rec.isRecording # rec.recording
    /\ rec' = [rec EXCEPT !.isRecording = rec.recording]
    /\ RecordFrame

\* The 'result' listener: setTranscription(transcript) of what the running
\* recognition hears, or of its final result after stop().
SpeechResult ==
    /\ rec.mounted
    /\ rec.listening \/ rec.finalDue
    /\ rec.takes > 0
    /\ rec' = [rec EXCEPT !.transcription = Heard(rec.takes), !.finalDue = FALSE]
    /\ RecordFrame

\* stopRecording up to await audioRecorder.stop(): the speech recognition
\* is stopped, and the recorder when the closure's recorderState.isRecording
\* is true.
RecordingStopping(r, isRecording) ==
    [r EXCEPT !.listening = FALSE, !.finalDue = r.listening \/ @,
              !.stop = IF isRecording THEN "stop" ELSE @]

\* Which button the screen shows.
RecordButton ==
    IF rec.isRecording THEN "stop"
    ELSE IF rec.isStopped /\ Truthy(rec.transcription) THEN "expense"
    ELSE "mic"

\* handleMicPress: stopRecording() when recorderState.isRecording, else
\* startRecording().
MicPress ==
    /\ screen = "record" /\ rec.mounted /\ ~rec.left
    /\ \/ /\ RecordButton = "stop"
          /\ rec.stop = "idle"
          /\ rec' = RecordingStopping(rec, rec.isRecording)
       \/ /\ RecordButton = "mic"
          /\ rec.mic = "idle"
          /\ rec.takes + (IF rec.auto = "prepare" \/ rec.chain # "idle" THEN 1 ELSE 0) < MaxTakes
          /\ rec' = [rec EXCEPT !.mic = "prepare"]
    /\ RecordFrame

\* audioRecorder.stop() settles: setIsStopped(true) when it resolved.
StopDone(P) ==
    /\ rec.stop = "stop"
    /\ \E ok \in P.outcomes :
         rec' = IF ok
                THEN [rec EXCEPT !.stop = "idle", !.recording = FALSE,
                                 !.isStopped = IF rec.mounted THEN TRUE ELSE @]
                ELSE [rec EXCEPT !.stop = "idle"]
    /\ RecordFrame

\* handleExpenseIt: the transcription is pushed to /transcription, whose
\* mount effect calls handleCategorize.
ExpenseIt ==
    /\ screen = "record" /\ rec.mounted /\ ~rec.left
    /\ RecordButton = "expense"
    /\ voice.pc = "idle"
    /\ Truthy(rec.transcription)
    /\ screen' = "voice"
    /\ voice' = VoiceCategorizing(VoiceInit(rec.transcription))
    /\ trace' = Issued(Started(trace, "transcription.handleCategorize"),
                       "transcription.handleCategorize", Call("openai.fetch", {}))
    /\ UNCHANGED <<env, acct, notes, nextId, edits, changes, add, edit, home,
                   fetches, del, export>>

\* handleCancel: stopRecording() of the current render, then router.back().
RecordCancel ==
    /\ screen = "record" /\ rec.mounted /\ ~rec.left
    /\ rec' = [RecordingStopping(rec, rec.isRecording) EXCEPT !.left = TRUE]
    /\ BackHome
    /\ UNCHANGED <<tz, now, apiKey, receiptColumn, fnArg, fnResult, acct, notes, nextId,
                   edits, changes, add, voice, edit, fetches, del, export, trace>>

\* The back gesture of the navigator: the screen is popped without a handler.
RecordDismiss ==
    /\ screen = "record" /\ rec.mounted /\ ~rec.left
    /\ rec' = [rec EXCEPT !.left = TRUE]
    /\ BackHome
    /\ UNCHANGED <<tz, now, apiKey, receiptColumn, fnArg, fnResult, acct, notes, nextId,
                   edits, changes, add, voice, edit, fetches, del, export, trace>>

\* The popped screen unmounts: the cleanup of the mount effect calls the
\* stopRecording of the first render, whose recorderState.isRecording is
\* false, and the listeners are removed.
RecordUnmount ==
    /\ rec.mounted /\ rec.left
    /\ rec' = [RecordingStopping(rec, FALSE) EXCEPT !.mounted = FALSE, !.finalDue = FALSE]
    /\ RecordFrame

\* ------------------------------------------------------ specifications

\* A specification draws the inputs of the handlers from the sets of a
\* profile P.
\* The client before the first sign-in.
\* The state at launch with the table notes holding the rows ns.
Stocked(P, ns) ==
    /\ tz \in P.tzs
    /\ now \in P.nows
    /\ apiKey \in P.apiKeys
    /\ receiptColumn \in P.receiptColumns
    /\ session = NoUser
    /\ users = <<>>
    /\ ensure = [c \in Callers |-> EnsureInit]
    /\ notes = ns
    /\ nextId = Len(ns) + 1
    /\ edits = 0
    /\ changes = 0
    /\ screen = "auth"
    /\ add = AddInit
    /\ voice = VoiceInit(Str(<<>>))
    /\ edit = EditInit(NoId)
    /\ home = HomeInit
    /\ fetches = [k \in FetchSlots |-> IdleFetch]
    /\ del = IdleDelete
    /\ export = IdleExport
    /\ trace = [h \in Handlers |-> NoTrace]
    /\ rec = RecordInit

\* The state at launch with an empty table notes.
Launched(P) == Stocked(P, <<>>)

\* No function is called on its own.
NoCall == [fn |-> "none"]

Init(P) == Launched(P) /\ fnArg = NoCall /\ fnResult = NoCall

\* transformNotesToExpenseGroups called on a list of notes.
Transform ==
    /\ fnArg.fn = "transformNotesToExpenseGroups"
    /\ fnResult = NoCall
    /\ fnResult' = [fn |-> fnArg.fn,
                    groups |-> transformNotesToExpenseGroups(fnArg.notes, tz)]
    /\ UNCHANGED <<tz, now, apiKey, receiptColumn, fnArg, acct, notes, nextId, edits, changes,
                   screen, add, voice, edit, home, fetches, del, export, trace, rec>>


SignIn(P) ==
    \/ SignInStart(P)
    \/ EnsureGetUserDone(P)
    \/ EnsureSelectDone(P)
    \/ EnsureInsertDone(P)
    \/ SignInNavigate(P)

List(P) ==
    \/ HomeFocus
    \/ FetchGetUserDone(P)
    \/ FetchServed
    \/ FetchSelectDone(P)

Record(P) ==
    \/ OpenRecord(P)
    \/ AudioPermissionDone(P)
    \/ SpeechPermissionDone(P)
    \/ AudioModeDone(P)
    \/ AutoStartDone(P)
    \/ MicStartDone(P)
    \/ RecorderStatus
    \/ SpeechResult
    \/ MicPress
    \/ StopDone(P)
    \/ ExpenseIt
    \/ RecordCancel
    \/ RecordDismiss
    \/ RecordUnmount

Delete(P) ==
    \/ PressDelete(P)
    \/ DeleteDone(P)

Export(P) ==
    \/ PressExport(P)
    \/ ExportGetUserDone(P)
    \/ ExportSelectDone(P)
    \/ ExportWriteDone(P)

ManualEntry(P) ==
    \/ OpenAddExpense(P)
    \/ AddChangeText(P)
    \/ AddPressSave
    \/ AddGetUserDone(P)
    \/ AddInsertDone(P)
    \/ AddCancel

Categorize(P) ==
    \/ OpenTranscription(P)
    \/ CategorizeDone(P)
    \/ VoiceRetry
    \/ VoiceCancel

VoiceSave(P) ==
    \/ VoiceChangeText(P)
    \/ VoicePressSave
    \/ VoiceGetUserDone(P)
    \/ VoiceInsertDone(P)

Edit(P) ==
    \/ OpenEditExpense(P)
    \/ EditLoadDone(P)
    \/ EditChangeText(P)
    \/ EditPressSave
    \/ EditGetUserDone(P)
    \/ EditUpdateDone(P)
    \/ EditCancel

Receipt(P) ==
    \/ PickImage(P)
    \/ UploadGetUserDone(P)
    \/ UploadReadDone(P)
    \/ UploadDone(P)
    \/ RemoveImage
    \/ EditRetryDone(P)

\* The response of a chat completion whose message has the content c.
Answer(c) ==
    [net |-> TRUE, ok |-> TRUE, json |-> TRUE, choices |-> 1, message |-> TRUE,
     content |-> Str(c)]

Apr24 == MdyText([y |-> 2024, m |-> 4, d |-> 24])

Noon == 24 * DayNumber([y |-> 2024, m |-> 2, d |-> 5]) + 12

NetworkError == [Answer(<<>>) EXCEPT !.net = FALSE]

\* The whole client for one user who waits for the list; every backend
\* call can fail, and the table has no column receipt_image_url.
App ==
    [tzs |-> {0}, nows |-> {Noon}, apiKeys |-> {TRUE}, receiptColumns |-> {FALSE},
     callers |-> {"handleCallback"}, users |-> {"u1"},
     linkScreens |-> {"auth", "home"}, patient |-> TRUE,
     outcomes |-> BOOLEAN,
     amountTexts |-> {<<"5">>}, dateTexts |-> {}, memoTexts |-> {}, categoryTexts |-> {},
     transcripts |-> {Str(<<"lunch">>)},
     responses |-> {Answer(<<"{", "A7", "}">>), NetworkError},
     routeIds |-> {1},
     picks |-> {[kind |-> "asset", uri |-> Str(<<"file://", "a">>)]},
     publicUrls |-> {TRUE}]

Next ==
    \/ SignIn(App) \/ CallbackAlertOk
    \/ List(App) \/ ChangeDelivered \/ Delete(App) \/ Export(App)
    \/ ManualEntry(App) \/ Categorize(App) \/ VoiceSave(App)
    \/ Edit(App) \/ Receipt(App)

Spec == Init(App) /\ [][Next]_vars


\* The three forms on devices of every UTC offset, with a backend that
\* answers every call, and a language model that answers an object (with a
\* date, with a negative amount), prose or nothing, or does not answer.
Forms ==
    [App EXCEPT
        !.tzs = {-MaxTz, 0, MaxTz}, !.receiptColumns = {TRUE},
        !.callers = {"handleAppleSignIn"}, !.outcomes = {TRUE},
        !.dateTexts = {Apr24},
        !.responses = {Answer(<<"{", "A7", "Dapr", "Mlunch", "}">>),
                       Answer(<<"{", "A-5", "}">>), Answer(<<"x">>), Answer(<<>>),
                       NetworkError},
        !.routeIds = {}]

NextForms ==
    \/ SignIn(Forms) \/ List(Forms) \/ ChangeDelivered
    \/ ManualEntry(Forms) \/ Categorize(Forms) \/ VoiceSave(Forms) \/ Edit(Forms)

SpecForms == Init(Forms) /\ [][NextForms]_vars

\* Two users who sign in one after the other on one device.
Shared ==
    [App EXCEPT
        !.receiptColumns = {TRUE}, !.users = {"u1", "u2"}, !.outcomes = {TRUE},
        !.routeIds = {1}]

NextShared ==
    \/ SignIn(Shared) \/ List(Shared) \/ ChangeDelivered \/ Delete(Shared)
    \/ ManualEntry(Shared) \/ Edit(Shared)

SpecShared == Init(Shared) /\ [][NextShared]_vars

\* The contents of a message: the token sequences of at most MaxContent
\* tokens.
ContentToks == {"~~~", "{", "}", "_", "x", "7", "A7"}
Contents == UNION { [1..n -> ContentToks] : n \in 0..MaxContent }

\* categorizeText on every response.
Replies ==
    [App EXCEPT
        !.apiKeys = BOOLEAN, !.callers = {"handleAppleSignIn"}, !.outcomes = {TRUE},
        !.responses =
            { Answer(c) : c \in Contents }
            \cup { [Answer(<<"{", "A7", "}">>) EXCEPT ![f] = FALSE] :
                     f \in {"net", "ok", "json", "message"} }
            \cup { [Answer(<<"{", "A7", "}">>) EXCEPT !.choices = 0],
                   [Answer(<<>>) EXCEPT !.content = JsNull] }]

NextCat == SignIn(Replies) \/ List(Replies) \/ Categorize(Replies)

SpecCat == Init(Replies) /\ [][NextCat]_vars

\* The sign-in handlers, several at a time, for one user.
SignIns ==
    [App EXCEPT
        !.callers = Callers, !.users = {"u1"}, !.patient = FALSE]

NextUsers == SignIn(SignIns) \/ CallbackAlertOk

SpecUsers == Init(SignIns) /\ [][NextUsers]_vars

\* The sign-in handlers for a user with an e-mail address and one without.
Guests ==
    [App EXCEPT
        !.callers = Callers, !.users = {"u1", "u0"}, !.patient = FALSE]

NextGuests == SignIn(Guests) \/ CallbackAlertOk

SpecGuests == Init(Guests) /\ [][NextGuests]_vars

\* Two users who enter expenses of two dates, with a memo that holds a
\* comma, and export them; every call of the export can fail.
Entries ==
    [Shared EXCEPT
        !.routeIds = {}, !.dateTexts = {Apr24}, !.memoTexts = {Str(<<"a", ",", "b">>)}]

Exports == [Entries EXCEPT !.outcomes = BOOLEAN]

NextExport ==
    \/ SignIn(Entries) \/ List(Entries) \/ ChangeDelivered
    \/ ManualEntry(Entries) \/ Export(Exports)

SpecExport == Init(Exports) /\ [][NextExport]_vars

\* One user who enters an expense and edits it with a receipt image; the
\* calls of the upload can fail, and the table has the column
\* receipt_image_url or not.
Receipts ==
    [Shared EXCEPT !.users = {"u1"}, !.routeIds = {}, !.receiptColumns = BOOLEAN]

Uploads == [Receipts EXCEPT !.outcomes = BOOLEAN]

NextReceipt ==
    \/ SignIn(Receipts) \/ List(Receipts) \/ ChangeDelivered
    \/ ManualEntry(Receipts) \/ Edit(Receipts) \/ Receipt(Uploads)

SpecReceipt == Init(Receipts) /\ [][NextReceipt]_vars

\* One user who types amounts with and without a value above zero in the
\* manual-entry form and in the edit form.
Amounts ==
    [Shared EXCEPT
        !.users = {"u1"}, !.routeIds = {},
        !.amountTexts = {<<>>, <<"0">>, <<"x">>, <<".">>, <<"5">>}]

NextAmounts ==
    \/ SignIn(Amounts) \/ List(Amounts) \/ ChangeDelivered
    \/ ManualEntry(Amounts) \/ Edit(Amounts)

SpecAmounts == Init(Amounts) /\ [][NextAmounts]_vars

\* A user with an e-mail address and one without, who save from the
\* manual-entry form and from the voice-confirmation form; getUser and
\* the insert of a save can fail.
Savers ==
    [Shared EXCEPT
        !.users = {"u1", "u0"}, !.routeIds = {},
        !.responses = {Answer(<<"{", "A7", "}">>)}]

Saves == [Savers EXCEPT !.outcomes = BOOLEAN]

NextSaves ==
    \/ SignIn(Savers) \/ List(Savers) \/ ChangeDelivered
    \/ ManualEntry(Saves) \/ Categorize(Savers) \/ VoiceSave(Saves)

SpecSaves == Init(Savers) /\ [][NextSaves]_vars

\* One user who opens the voice-confirmation screen with a text or with
\* none; the language model answers or the request fails, and getUser and
\* the insert of a save can fail.
Voices ==
    [Savers EXCEPT
        !.users = {"u1"},
        !.transcripts = {Str(<<"lunch">>), Str(<<>>)},
        !.responses = {Answer(<<"{", "A7", "}">>), NetworkError}]

VoiceSaves == [Voices EXCEPT !.outcomes = BOOLEAN]

NextVoice ==
    \/ SignIn(Voices) \/ List(Voices) \/ ChangeDelivered
    \/ Categorize(Voices) \/ VoiceSave(VoiceSaves)

SpecVoice == Init(Voices) /\ [][NextVoice]_vars

\* An hour before midnight UTC of the day of Noon.
Late == Noon + 11

\* The three forms at noon and late in the evening, on devices east and
\* west of UTC; the date field is left empty, blank or unparsable or holds
\* a date, and the language model answers without a date, with the text
\* "null", with a blank date or with a date, or does not answer.
Dates ==
    [Forms EXCEPT
        !.tzs = {-MaxTz, MaxTz}, !.nows = {Noon, Late},
        !.dateTexts = {Str(<<>>), Str(<<" ">>), Str(<<"x">>), Apr24},
        !.responses = {Answer(<<"{", "A7", "Dnull", "}">>),
                       Answer(<<"{", "A7", "Dnullw", "}">>),
                       Answer(<<"{", "A7", "Dblank", "}">>),
                       Answer(<<"{", "A7", "Dapr", "}">>), NetworkError}]

NextDates ==
    \/ SignIn(Dates) \/ List(Dates) \/ ChangeDelivered
    \/ ManualEntry(Dates) \/ Categorize(Dates) \/ VoiceSave(Dates) \/ Edit(Dates)

SpecDates == Init(Dates) /\ [][NextDates]_vars

\* One user who does not wait for the list to settle before acting, enters
\* expenses and swipes them away; the delete and the calls of a list fetch
\* can fail.
Swipes ==
    [Shared EXCEPT
        !.callers = {"handleAppleSignIn"}, !.users = {"u1"}, !.routeIds = {},
        !.patient = FALSE]

Dels == [Swipes EXCEPT !.outcomes = BOOLEAN]

NextDelete ==
    \/ SignIn(Swipes) \/ List(Dels) \/ ChangeDelivered
    \/ ManualEntry(Swipes) \/ Delete(Dels)

SpecDelete == Init(Swipes) /\ [][NextDelete]_vars

\* The same user with a backend that answers every call: list fetches of
\* the mount, the focus, a change notification and a delete overlap.
NextOverlap ==
    \/ SignIn(Swipes) \/ List(Swipes) \/ ChangeDelivered
    \/ ManualEntry(Swipes) \/ Delete(Swipes)

SpecOverlap == Init(Swipes) /\ [][NextOverlap]_vars

\* The same user exports the list while list fetches are in flight.
NextLoading ==
    \/ SignIn(Swipes) \/ List(Swipes) \/ ChangeDelivered
    \/ ManualEntry(Swipes) \/ Export(Swipes)

SpecLoading == Init(Swipes) /\ [][NextLoading]_vars

\* One user who opens the record screen from the home list; a permission
\* can be denied, and setAudioModeAsync, prepareToRecordAsync, the start of
\* the speech recognition and audioRecorder.stop() can fail.
Takers ==
    [Shared EXCEPT !.callers = {"handleAppleSignIn"}, !.users = {"u1"}, !.routeIds = {}]

Recordings == [Takers EXCEPT !.outcomes = BOOLEAN]

NextRecord == SignIn(Takers) \/ List(Takers) \/ Record(Recordings)

SpecRecord == Init(Takers) /\ [][NextRecord]_vars

\* One user who enters an expense with a memo and opens it in the edit
\* form; no date is typed; the load, getUser and the update of the edit
\* form can fail.
Loads ==
    [Shared EXCEPT
        !.callers = {"handleAppleSignIn"}, !.users = {"u1"}, !.routeIds = {},
        !.memoTexts = {Str(<<"a">>)}]

FailedLoads == [Loads EXCEPT !.outcomes = BOOLEAN]

NextLoad ==
    \/ SignIn(Loads) \/ List(Loads) \/ ChangeDelivered
    \/ ManualEntry(Loads) \/ Edit(FailedLoads)

SpecLoad == Init(Loads) /\ [][NextLoad]_vars

\* A record of user u1 that has a receipt image.
WithReceipt ==
    [id |-> 1, user_id |-> "u1", email |-> EmailOf("u1"), amount |-> Num(500),
     date_of_transaction |-> [y |-> 2024, m |-> 2, d |-> 5], description |-> JsNull,
     category |-> JsNull, transcript |-> JsNull, receipt_image_url |-> PublicUrl("u1"),
     created_at |-> 1]

\* The user of that record opens it in the edit form and picks another
\* image, whose upload can fail, and saves; Remove is never pressed.
Keepers ==
    [Shared EXCEPT !.callers = {"handleAppleSignIn"}, !.users = {"u1"}, !.routeIds = {}]

FailedUploads == [Keepers EXCEPT !.outcomes = BOOLEAN]

NextKeep ==
    \/ SignIn(Keepers) \/ List(Keepers) \/ ChangeDelivered \/ Edit(Keepers)
    \/ PickImage(FailedUploads) \/ UploadGetUserDone(FailedUploads)
    \/ UploadReadDone(FailedUploads) \/ UploadDone(FailedUploads)

\* The table notes holds that record when the program is launched.
InitKeep == Stocked(Keepers, <<WithReceipt>>) /\ fnArg = NoCall /\ fnResult = NoCall

SpecKeep == InitKeep /\ [][NextKeep]_vars

\* The notes of a list: of the first and the last day of a month and of
\* the same month a year before, two of them with the same id.
ListDates ==
    {[y |-> 2024, m |-> 4, d |-> 1], [y |-> 2024, m |-> 3, d |-> 31],
     [y |-> 2023, m |-> 4, d |-> 1]}

ListNotes ==
    { [id |-> i, date_of_transaction |-> c, amount |-> Num(500),
       description |-> JsNull, transcript |-> JsNull] : i \in 1..2, c \in ListDates }

Lists == UNION { [1..n -> ListNotes] : n \in 0..MaxList }

\* transformNotesToExpenseGroups on every list of at most MaxList notes,
\* at every UTC offset.
InitLists ==
    /\ Launched([App EXCEPT !.tzs = {-MaxTz, 0, MaxTz}])
    /\ fnArg \in { [fn |-> "transformNotesToExpenseGroups", notes |-> l] : l \in Lists }
    /\ fnResult = NoCall

NextLists == Transform

SpecLists == InitLists /\ [][NextLists]_vars

\* The characters of a memo: a letter, and the ones a CSV reader gives a
\* meaning to.
FieldChars == {"a", ",", "\"", "\n", "\r"}
FieldTexts == UNION { [1..n -> FieldChars] : n \in 1..MaxField }

\* One user who enters expenses with every memo of FieldTexts and exports
\* them; the backend answers every call.
Memos ==
    [Shared EXCEPT
        !.users = {"u1"}, !.routeIds = {},
        !.memoTexts = { Str(t) : t \in FieldTexts }]

NextCsv ==
    \/ SignIn(Memos) \/ List(Memos) \/ ChangeDelivered
    \/ ManualEntry(Memos) \/ Export(Memos)

SpecCsv == Init(Memos) /\ [][NextCsv]_vars

\* ------------------------------------------------------------- properties

\* C1: every stored expense record has an amount that is a number >= 0,
\* whatever sequence of manual, voice and edit saves and deletes made the
\* table.
C1_AmountNonNegative ==
    \A i \in DOMAIN notes : notes[i].amount.type = "number" /\ notes[i].amount.n >= 0

\* C2: no step taken while one user is signed in modifies or deletes a
\* record that another user owns.
C2_OwnRecordsOnly ==
    [][\A i \in DOMAIN notes :
          notes[i].user_id # session => (i \in DOMAIN notes' /\ notes'[i] = notes[i])]_vars

\* The columns an edit-form save leaves alone.
KeptColumns == {"id", "user_id", "email", "transcript", "created_at"}

\* C3: a step that changes a record of the table is the resolution of an
\* update of the edit form, the record is the one the form was opened
\* with, and its id, user_id, email, transcript and created_at are kept;
\* all other records are as they were.
C3_EditFrame ==
    [][\A i \in DOMAIN notes \cap DOMAIN notes' :
          notes'[i] # notes[i] =>
              /\ edit.pc \in {"update", "retry"}
              /\ i = edit.id
              /\ \A f \in KeptColumns : notes'[i][f] = notes[i][f]]_vars

\* C3, reached: with two records in the table, the one a voice save made
\* holds the amount the edit form saved.
C3_Edited ==
    /\ Cardinality(DOMAIN notes) = 2
    /\ edits = 1
    /\ \E i \in DOMAIN notes : notes[i].transcript # JsNull /\ notes[i].amount = Num(500)

\* C4: a save of any of the three forms stores as date_of_transaction the
\* calendar date its date field holds, at every UTC offset.
C4_StoredDate ==
    [][/\ (add.pc = "insert" /\ nextId' # nextId /\ IsDateText(add.req.form.date))
            => notes'[nextId].date_of_transaction = CivilOf(add.req.form.date)
       /\ (voice.pc = "insert" /\ nextId' # nextId /\ IsDateText(voice.req.form.date))
            => notes'[nextId].date_of_transaction = CivilOf(voice.req.form.date)
       /\ (edit.pc \in {"update", "retry"} /\ edits' # edits /\ edit.id \in DOMAIN notes
             /\ IsDateText(edit.req.form.date))
            => notes'[edit.id].date_of_transaction = CivilOf(edit.req.form.date)]_vars

\* The first position after i that holds no white space.
NextNonSpace(c, i) ==
    CHOOSE j \in (i + 1)..(Len(c) + 1) :
        /\ j = Len(c) + 1 \/ c[j] # "_"
        /\ \A m \in (i + 1)..(j - 1) : c[m] = "_"

IsToken(c, i, tok) == i \in 1..Len(c) /\ c[i] = tok

\* The closing braces of a fenced object: a fence follows them.
FencedClosers(c) ==
    { k \in 1..Len(c) : c[k] = "}" /\ IsToken(c, NextNonSpace(c, k), "~~~") }

\* The fences that open a fenced object: a brace follows them, and a
\* closing brace after that.
FencedOpeners(c) ==
    { i \in 1..Len(c) :
        /\ c[i] = "~~~"
        /\ IsToken(c, NextNonSpace(c, i), "{")
        /\ \E k \in FencedClosers(c) : k > NextNonSpace(c, i) }

Least(S) == CHOOSE x \in S : \A y \in S : x <= y
Greatest(S) == CHOOSE x \in S : \A y \in S : x >= y

\* The text categorizeText parses: from the brace of the first fenced
\* object to the last brace that a fence follows; without a fenced object,
\* from the first brace that a closing brace follows to the last closing
\* brace; without one, the whole content.
ParsedSpan(c) ==
    LET opens  == { i \in 1..Len(c) : c[i] = "{" /\ \E k \in (i + 1)..Len(c) : c[k] = "}" }
        closes == { k \in 1..Len(c) : c[k] = "}" }
    IN  IF FencedOpeners(c) # {}
        THEN SubSeq(c, NextNonSpace(c, Least(FencedOpeners(c))), Greatest(FencedClosers(c)))
        ELSE IF opens # {} THEN SubSeq(c, Least(opens), Greatest(closes))
        ELSE c

ContentOf(r) == IF r.content = JsNull THEN <<>> ELSE r.content.s

\* C5, as it holds: categorizeText rejects exactly when the API key is
\* missing, the fetch fails, the response is not OK, its body does not
\* decode, it has no choice, or the first choice has no message; otherwise
\* it resolves with JSON.parse of the span it extracts when that span
\* parses, and with the raw content when it does not.
C5_CategorizeText ==
    voice.settled # JsNull =>
        LET r == voice.response
            res == voice.settled
            p == JsonParse(ParsedSpan(ContentOf(r)))
        IN  /\ res.outcome = "rejected" <=>
                  (~apiKey \/ ~r.net \/ ~r.ok \/ ~r.json \/ r.choices = 0 \/ ~r.message)
            /\ res.outcome = "resolved" =>
                  res.value = IF p.ok THEN p.value ELSE Str(ContentOf(r))

\* C5, reached: a fenced object was parsed.
C5_FencedParsed ==
    /\ voice.settled # JsNull
    /\ voice.settled.outcome = "resolved"
    /\ voice.settled.value.type = "object"
    /\ IsToken(ContentOf(voice.response), 1, "~~~")

\* The content holds a parsable JSON object.
HoldsObject(c) ==
    \E i, k \in 1..Len(c) :
        i < k /\ c[i] = "{" /\ c[k] = "}" /\ JsonParse(SubSeq(c, i, k)).ok

\* C5, as stated: rejection only for a missing key, a response that is not
\* OK or one without choices; an OK response with a choice resolves with
\* a parsed object when the content holds a parsable object and with the
\* raw content otherwise.
C5_AsStated ==
    voice.settled # JsNull =>
        LET r == voice.response
            res == voice.settled
            c == ContentOf(r)
        IN  /\ res.outcome = "rejected" => (~apiKey \/ ~r.ok \/ r.choices = 0)
            /\ (apiKey /\ r.net /\ r.ok /\ r.json /\ r.choices > 0 /\ r.message) =>
                  /\ res.outcome = "resolved"
                  /\ IF HoldsObject(c)
                     THEN \E i, k \in 1..Len(c) :
                              /\ i < k /\ c[i] = "{" /\ c[k] = "}"
                              /\ JsonParse(SubSeq(c, i, k)).ok
                              /\ res.value = JsonParse(SubSeq(c, i, k)).value
                     ELSE res.value = Str(c)

\* handleCategorize settles with a raw string.
RawSettled ==
    /\ voice.pc = "categorize"
    /\ voice'.pc = "idle"
    /\ voice'.settled.outcome = "resolved"
    /\ voice'.settled.value.type = "string"

\* The form after a raw response: the transcript is the memo, the raw
\* response the category.
RawForm(text, raw) ==
    [type |-> "object", amount |-> Num(0), date |-> getTodayDate(now, tz),
     memo |-> text, category |-> raw]

\* C6, as it holds: after a response that does not parse, the memo field
\* holds the transcript and the category field the raw response; a save
\* without an edit stores the transcript as description and the raw
\* response as category (null when it is empty).
C6_RawResponse ==
    [][/\ RawSettled => voice'.expenseData = RawForm(voice.text, voice'.settled.value)
       /\ (/\ voice.pc = "insert" /\ nextId' # nextId
           /\ voice.settled.value.type = "string"
           /\ voice.req.form = RawForm(voice.text, voice.settled.value))
            => /\ notes'[nextId].description = voice.text
               /\ notes'[nextId].category =
                      IF voice.settled.value.s = <<>> THEN JsNull ELSE voice.settled.value]_vars

\* C6, reached: a record saved from the form of a raw response.
C6_RawSaved ==
    \E i \in DOMAIN notes :
        /\ notes[i].description = Str(<<"lunch">>)
        /\ notes[i].category = Str(<<"x">>)
        /\ notes[i].amount = Num(0)

\* C6, as stated: after a response that does not parse, the memo field
\* holds the raw response.
C6_AsStated == [][RawSettled => voice'.expenseData.memo = voice'.settled.value]_vars

\* C7: an invocation of a handler in which a backend call failed has shown
\* an alert when it returns.
C7_FailureAlerts ==
    \A h \in Handlers : (trace[h].failed /\ ~InFlight(h)) => trace[h].alerted

\* The number of times an invocation made the call.
Attempts(calls, name) == Cardinality({ i \in 1..Len(calls) : calls[i].call = name })

CallNames ==
    {"auth.getUser", "notes.select", "notes.insert", "notes.update", "notes.delete",
     "openai.fetch", "storage.upload", "file.write"}

\* C8, as it holds: an invocation of a handler makes every backend call at
\* most once, except the update of the edit form's save, which is made a
\* second time only after the first failed on the missing column; a fetch
\* of the list makes each of its calls once.
C8_Attempts ==
    /\ \A h \in Handlers, name \in CallNames :
         \/ Attempts(trace[h].calls, name) <= 1
         \/ /\ h = "edit.handleSave" /\ name = "notes.update"
            /\ Attempts(trace[h].calls, name) = 2
            /\ trace[h].failed /\ ~receiptColumn
    /\ \A k \in FetchSlots, name \in CallNames : Attempts(fetches[k].calls, name) <= 1

\* C8, reached: a save whose insert failed has returned after one attempt.
C8_FailedOnce ==
    /\ trace["add.handleSave"].failed
    /\ ~InFlight("add.handleSave")
    /\ Attempts(trace["add.handleSave"].calls, "notes.insert") = 1

\* C8, as stated: no invocation makes a backend call twice.
C8_AsStated ==
    \A h \in Handlers, name \in CallNames : Attempts(trace[h].calls, name) <= 1

\* C9: the delivery of a change notification starts a fetch of the list
\* while HomeScreen is mounted, and starts none when it is not.
C9_NotificationFetch ==
    [][changes' < changes =>
         IF home.mounted
         THEN \E k \in FetchSlots :
                  /\ fetches[k].pc = "idle"
                  /\ fetches'[k].pc = "getUser" /\ fetches'[k].by = "change"
         ELSE fetches' = fetches]_vars

\* C9, reached: a fetch that a notification started is in flight.
C9_FetchByChange ==
    \E k \in FetchSlots : fetches[k].pc # "idle" /\ fetches[k].by = "change"

RowsOf(u) == { i \in 1..Len(users) : users[i].id = u }

\* C10, as it holds: table users never holds two rows of one id; when a
\* call of ensureUserInDatabase returns after it found the row or its
\* insert was answered, the table holds exactly one row of the user; and
\* no step changes or removes a row of the table.
C10_OneRow ==
    /\ [](\A u \in Users : Cardinality(RowsOf(u)) <= 1)
    /\ [](\A c \in Callers :
            (ensure[c].pc = "navigate" /\ ensure[c].returned.clean)
                => Cardinality(RowsOf(ensure[c].returned.uid)) = 1)
    /\ [][\A i \in 1..Len(users) : i <= Len(users') /\ users'[i] = users[i]]_vars

\* C10, reached: a call returns from an insert the primary key refused.
C10_Raced ==
    \E c \in Callers :
        /\ ensure[c].pc = "navigate"
        /\ ensure[c].returned.code = "23505"
        /\ Len(users) = 1

\* C10, as stated: when a call returns, the table holds exactly one row
\* of the signed-in user.
C10_AsStated ==
    \A c \in Callers : ensure[c].pc = "navigate" => Cardinality(RowsOf(session)) = 1

\* C11: a call of ensureUserInDatabase that is over has resolved, whatever
\* getUser, the existence check and the insert answered, and the handler
\* that awaited it goes on to the home list.
C11_NeverRejects ==
    /\ [](\A c \in Callers :
            ensure[c].pc = "navigate" => ensure[c].returned.outcome = "resolved")
    /\ [][\A c \in Callers :
            (ensure[c].pc = "navigate" /\ ensure'[c] # ensure[c]) => screen' = "home"]_vars

\* C11, reached: a call is over whose insert failed with an error other
\* than 23505, made for a user the table has no row of.
C11_InsertThrew ==
    \E c \in Callers :
        /\ ensure[c].pc = "navigate"
        /\ ensure[c].returned.code = "failed"
        /\ RowsOf(ensure[c].returned.uid) = {}

\* The columns of a line of the file, in the order of the header.
CsvColumns ==
    <<"id", "date_of_transaction", "amount", "description", "category", "transcript",
      "email", "created_at">>

\* String(value) of a column of a record; null gives no text.
CellOf(note, col) ==
    CASE col \in {"id", "created_at"} -> Str(NatDigits(note[col]))
      [] col = "date_of_transaction" -> Str(IsoChars(note[col]))
      [] col = "amount" -> Str(NumberToString(note[col]))
      [] OTHER -> note[col]

\* The records of the user getUser returns.
OwnIds == { i \in DOMAIN notes : notes[i].user_id = session }

\* C12: the content handleExportCSV builds from the answer of its select
\* is the header, then one line of 8 fields per record of the signed-in
\* user and none of another user's, each field the escaped column of the
\* header's order, the lines by date_of_transaction, newest first; the
\* file is written only after getUser gave a user and the select answered
\* without an error and with at least one record.
C12_CsvExport ==
    /\ [][(export.pc = "getUser" /\ export'.pc = "select") =>
            LET csv == export'.csv
                idOf(k) == CHOOSE i \in OwnIds : csv[k][1] = NatDigits(i)
            IN  /\ session # NoUser
                /\ csv[1] = <<"ID", "Date", "Amount", "Description", "Category",
                              "Transcript", "Email", "Created At">>
                /\ Len(csv) = 1 + Cardinality(OwnIds)
                /\ { csv[k][1] : k \in 2..Len(csv) } = { NatDigits(i) : i \in OwnIds }
                /\ \A k \in 2..Len(csv) :
                      /\ Len(csv[k]) = 8
                      /\ \A j \in 1..8 :
                            csv[k][j] = escapeCSV(CellOf(notes[idOf(k)], CsvColumns[j]))
                /\ \A k \in 2..(Len(csv) - 1) :
                      DayNumber(notes[idOf(k)].date_of_transaction)
                          >= DayNumber(notes[idOf(k + 1)].date_of_transaction)]_vars
    /\ [][export'.pc = "write" =>
            /\ export.pc \in {"select", "write"}
            /\ Len(export'.csv) >= 2
            /\ ~trace'["home.handleExportCSV"].failed]_vars
    /\ [](Attempts(trace["home.handleExportCSV"].calls, "file.write") > 0 =>
            /\ Attempts(trace["home.handleExportCSV"].calls, "notes.select") = 1
            /\ ~trace["home.handleExportCSV"].failed \/ export.pc = "idle")

\* C12, reached: the file of a user is being written, with the line of
\* the user's record and none of the record another user has.
C12_OwnLine ==
    /\ export.pc = "write"
    /\ Len(export.csv) = 2
    /\ export.csv[2][4] = <<"\"", "a", ",", "b", "\"">>
    /\ \E i \in DOMAIN notes : notes[i].user_id # session

\* What a reader of CSV text takes a carriage return outside quotes for
\* when no line feed follows it: a line break, or a character of the field.
CrReadings == {"break", "data"}

\* A reader of quoted CSV text, from position i on: a field that starts
\* with a quote runs to the next quote that is not doubled, and a doubled
\* quote in it is one quote; outside quotes a comma ends the field, and a
\* line feed, a carriage return with a line feed and (by cr) a lone
\* carriage return end the record. q is where the reader is in the
\* field: at its start, in plain text, or inside quotes.
RECURSIVE ReadFrom(_, _, _, _, _, _, _)
ReadFrom(txt, cr, i, q, field, cells, recs) ==
    IF i > Len(txt)
    THEN IF q = "start" /\ cells = <<>> THEN recs ELSE Append(recs, Append(cells, field))
    ELSE LET ch == txt[i]
             crlf == ch = "\r" /\ i < Len(txt) /\ txt[i + 1] = "\n"
         IN  IF q = "quoted"
             THEN IF ch # "\""
                  THEN ReadFrom(txt, cr, i + 1, "quoted", Append(field, ch), cells, recs)
                  ELSE IF i < Len(txt) /\ txt[i + 1] = "\""
                  THEN ReadFrom(txt, cr, i + 2, "quoted", Append(field, "\""), cells, recs)
                  ELSE ReadFrom(txt, cr, i + 1, "plain", field, cells, recs)
             ELSE IF ch = ","
             THEN ReadFrom(txt, cr, i + 1, "start", <<>>, Append(cells, field), recs)
             ELSE IF ch = "\n" \/ crlf \/ (ch = "\r" /\ cr = "break")
             THEN ReadFrom(txt, cr, IF crlf THEN i + 2 ELSE i + 1, "start", <<>>, <<>>,
                           Append(recs, Append(cells, field)))
             ELSE IF ch = "\"" /\ q = "start"
             THEN ReadFrom(txt, cr, i + 1, "quoted", field, cells, recs)
             ELSE ReadFrom(txt, cr, i + 1, "plain", Append(field, ch), cells, recs)

ReadCsv(txt, cr) == ReadFrom(txt, cr, 1, "start", <<>>, <<>>, <<>>)

\* The text of a value; null has none.
TextOf(v) == IF v.type = "string" THEN v.s ELSE <<>>

\* The text that is written reads back, with the reading cr of a lone
\* carriage return, as the header and one record of 8 fields per exported
\* row, each field the text of the row's column.
ReadsBack(cr) ==
    LET recs == ReadCsv(export.text, cr)
        rows == SelectNotes(notes, session)
    IN  /\ Len(recs) = 1 + Len(rows)
        /\ recs[1] = [j \in 1..8 |-> <<csvHeader[j]>>]
        /\ \A k \in 1..Len(rows) :
              /\ Len(recs[k + 1]) = 8
              /\ \A j \in 1..8 : recs[k + 1][j] = TextOf(CellOf(rows[k], CsvColumns[j]))

\* C13: the text handleExportCSV writes reads back, under the rules of
\* quoted CSV and whatever a reader takes a lone carriage return for, as
\* records of exactly 8 fields that hold the original values.
C13_Lossless == export.pc = "write" => \A cr \in CrReadings : ReadsBack(cr)

\* The month and the year the device's time zone gives the date of a note.
LocalMonth(note) == LocalCivil(NewDate(IsoText(note.date_of_transaction), tz), tz)

\* The positions of the list whose note falls in the month of group g.
PlacesOf(g) ==
    { n \in 1..Len(fnArg.notes) :
        MonthNames[LocalMonth(fnArg.notes[n]).m] = g.month /\ LocalMonth(fnArg.notes[n]).y = g.year }

\* C14: the groups partition the list: a group holds as many expenses of
\* an id as the list holds notes of that id in the group's month and year,
\* every note falls in the month of some group, the expenses of a group
\* carry the month of the group, and no two groups have the same month
\* and year.
C14_Partition ==
    fnResult # NoCall =>
        /\ \A n \in 1..Len(fnArg.notes) : \E k \in 1..Len(fnResult.groups) : n \in PlacesOf(fnResult.groups[k])
        /\ \A k \in 1..Len(fnResult.groups) :
              LET g == fnResult.groups[k]
              IN  /\ Len(g.expenses) = Cardinality(PlacesOf(g))
                  /\ \A i \in 1..2 :
                        Cardinality({ j \in 1..Len(g.expenses) : g.expenses[j].id = i })
                            = Cardinality({ n \in PlacesOf(g) : fnArg.notes[n].id = i })
                  /\ \A j \in 1..Len(g.expenses) : MonthNames[g.expenses[j].month] = g.month
        /\ \A k, l \in 1..Len(fnResult.groups) :
              (/\ fnResult.groups[k].month = fnResult.groups[l].month
               /\ fnResult.groups[k].year = fnResult.groups[l].year) => k = l

\* C14, reached: a list with one id twice in one month and a note of
\* another month gave two groups.
C14_TwoGroups ==
    /\ fnResult # NoCall
    /\ Len(fnArg.notes) = 3
    /\ fnArg.notes[1].id = fnArg.notes[3].id
    /\ fnArg.notes[1].date_of_transaction = fnArg.notes[3].date_of_transaction
    /\ fnArg.notes[2].date_of_transaction.y # fnArg.notes[1].date_of_transaction.y
    /\ Len(fnResult.groups) = 2

\* C15: the groups come newest first, by year and then by month, each
\* strictly newer than the next, and the expenses of a group are the notes
\* of its month in the order of the list.
C15_NewestFirst ==
    fnResult # NoCall =>
        /\ \A k \in 1..(Len(fnResult.groups) - 1) :
              \/ fnResult.groups[k].year > fnResult.groups[k + 1].year
              \/ /\ fnResult.groups[k].year = fnResult.groups[k + 1].year
                 /\ MonthOrder(fnResult.groups[k].month) > MonthOrder(fnResult.groups[k + 1].month)
        /\ \A k \in 1..Len(fnResult.groups) :
              \A j \in 1..Len(fnResult.groups[k].expenses) :
                  LET n == CHOOSE n \in PlacesOf(fnResult.groups[k]) :
                               Cardinality({ m \in PlacesOf(fnResult.groups[k]) : m < n }) = j - 1
                  IN  /\ fnResult.groups[k].expenses[j].id = fnArg.notes[n].id
                      /\ fnResult.groups[k].expenses[j].day = LocalMonth(fnArg.notes[n]).d

\* C15, reached: a list from the oldest month to the newest gave three
\* groups.
C15_Reversed ==
    /\ fnResult # NoCall
    /\ Len(fnResult.groups) = 3
    /\ tz = 0
    /\ fnArg.notes[1].date_of_transaction = [y |-> 2023, m |-> 4, d |-> 1]
    /\ fnArg.notes[2].date_of_transaction = [y |-> 2024, m |-> 3, d |-> 31]
    /\ fnArg.notes[3].date_of_transaction = [y |-> 2024, m |-> 4, d |-> 1]

\* C18: an expense of the list is in the group of the month and year of
\* its note's date_of_transaction and shows that date's month and day, at
\* every UTC offset.
C18_StoredDay ==
    fnResult # NoCall =>
        \A n \in 1..Len(fnArg.notes) :
            \E k \in 1..Len(fnResult.groups) :
                /\ fnResult.groups[k].month = MonthNames[fnArg.notes[n].date_of_transaction.m]
                /\ fnResult.groups[k].year = fnArg.notes[n].date_of_transaction.y
                /\ \E j \in 1..Len(fnResult.groups[k].expenses) :
                      /\ fnResult.groups[k].expenses[j].id = fnArg.notes[n].id
                      /\ fnResult.groups[k].expenses[j].month = fnArg.notes[n].date_of_transaction.m
                      /\ fnResult.groups[k].expenses[j].day = fnArg.notes[n].date_of_transaction.d

\* C16: the receipt_image_url of every record is null or a public URL the
\* storage bucket returned; the local URI of a picked image is in no
\* record.
C16_ReceiptUrl ==
    \A i \in DOMAIN notes :
        \/ notes[i].receipt_image_url = JsNull
        \/ notes[i].receipt_image_url \in { PublicUrl(u) : u \in Users }

\* C16, reached: Save was pressed while the upload of a picked image was
\* in flight, and the update is issued with the form holding the local URI.
C16_SavedWhileUploading ==
    /\ edit.pc = "update"
    /\ edit.upc = "upload"
    /\ edit.req.form.receiptImageUri = Str(<<"file://", "a">>)

\* C17: a save of the edit form whose date field still holds the text the
\* form was loaded with leaves the record's date_of_transaction as it
\* was, at every UTC offset.
C17_DateKept ==
    [][(/\ edit.pc \in {"update", "retry"} /\ edits' # edits /\ edit.id \in DOMAIN notes
        /\ edit.req.form.date =
               formatDateForDisplay(IsoText(notes[edit.id].date_of_transaction), tz))
          => notes'[edit.id].date_of_transaction = notes[edit.id].date_of_transaction]_vars

\* Amount texts that parse to no value above zero: empty, zero, no digit.
NoAmount == {<<>>, <<"0">>, <<"x">>, <<".">>}

\* The step is an invocation of handler h that was not in flight: its
\* trace is a new one.
Invoked(h) == trace'[h] # trace[h] /\ trace'[h] # NoTrace

\* C19: while the amount field of the manual-entry form or of the edit
\* form holds no value above zero, no step starts a save or changes a
\* record, and a press of Save shows an alert, makes no backend call and
\* leaves the form as it is, on screen and with isSaving false.
C19_InvalidAmount ==
    [][/\ (screen = "add" /\ add.pc = "idle" /\ add.amount \in NoAmount) =>
            /\ notes' = notes
            /\ add'.pc = "idle" /\ ~add'.isSaving
            /\ Invoked("add.handleSave") =>
                  /\ trace'["add.handleSave"].alerted
                  /\ trace'["add.handleSave"].calls = <<>>
                  /\ screen' = "add" /\ add' = add
       /\ (screen = "edit" /\ edit.pc = "idle" /\ ~edit.isLoading
              /\ edit.amount \in NoAmount) =>
            /\ notes' = notes
            /\ edit'.pc = "idle" /\ ~edit'.isSaving
            /\ Invoked("edit.handleSave") =>
                  /\ trace'["edit.handleSave"].alerted
                  /\ trace'["edit.handleSave"].calls = <<>>
                  /\ screen' = "edit" /\ edit' = edit]_vars

\* C19, reached: Save was pressed in the edit form of a record with the
\* amount field set to zero.
C19_ZeroRefused ==
    /\ screen = "edit"
    /\ edit.id \in DOMAIN notes
    /\ edit.amount = <<"0">>
    /\ edit.pc = "idle" /\ ~edit.isSaving
    /\ trace["edit.handleSave"].alerted
    /\ trace["edit.handleSave"].calls = <<>>

\* The field values of the manual-entry form and of the voice-confirmation
\* form.
AddFields(a) == <<a.amount, a.date, a.memo, a.category>>
VoiceFields(v) == <<v.text, v.expenseData>>

\* A step in which a call of the handler's invocation failed.
CallFailed(h) == trace'[h].failed /\ ~trace[h].failed

\* A step in which getUser answered a user who has no e-mail address.
NoEmail(pc, pcNext) == pc = "getUser" /\ pcNext # "getUser" /\ ~Truthy(EmailOf(session))

\* A step that adds exactly one record, with the next id, and changes no other.
OneInserted ==
    /\ nextId \notin DOMAIN notes
    /\ DOMAIN notes' = DOMAIN notes \cup {nextId}
    /\ \A i \in DOMAIN notes : notes'[i] = notes[i]

\* C20: in the manual-entry and voice-confirmation forms, when getUser
\* fails, the user has no e-mail address or the insert fails, the step
\* creates no record, leaves the field values and the screen as they are and
\* sets isSaving to false; while a save is in flight the screen changes
\* only in the step in which its insert succeeded, to the home list; the
\* records change only in such a step, by exactly one record; and no
\* invocation issues more than one insert.
C20_FailedSave ==
    /\ [][/\ (add.pc # "idle" /\ (CallFailed("add.handleSave") \/ NoEmail(add.pc, add'.pc))) =>
                /\ notes' = notes
                /\ AddFields(add') = AddFields(add)
                /\ screen' = screen /\ screen = "add"
                /\ add.isSaving /\ ~add'.isSaving /\ add'.pc = "idle"
                /\ trace'["add.handleSave"].alerted
          /\ (voice.pc \in {"getUser", "insert"}
                  /\ (CallFailed("transcription.handleSave") \/ NoEmail(voice.pc, voice'.pc))) =>
                /\ notes' = notes
                /\ VoiceFields(voice') = VoiceFields(voice)
                /\ screen' = screen /\ screen = "voice"
                /\ voice.isSaving /\ ~voice'.isSaving /\ voice'.pc = "idle"
                /\ trace'["transcription.handleSave"].alerted
          /\ (add.pc # "idle" /\ screen' # screen) =>
                /\ add.pc = "insert" /\ ~trace'["add.handleSave"].failed
                /\ OneInserted /\ screen' = "home"
          /\ (voice.pc \in {"getUser", "insert"} /\ screen' # screen) =>
                /\ voice.pc = "insert" /\ ~trace'["transcription.handleSave"].failed
                /\ OneInserted /\ screen' = "home"
          /\ notes' # notes =>
                /\ OneInserted /\ screen' = "home"
                /\ \/ screen = "add" /\ add.pc = "insert" /\ add'.pc = "idle"
                      /\ notes'[nextId].user_id = session
                   \/ screen = "voice" /\ voice.pc = "insert" /\ voice'.pc = "idle"
                      /\ notes'[nextId].user_id = session]_vars
    /\ [](\A h \in {"add.handleSave", "transcription.handleSave"} :
            Cardinality({i \in DOMAIN trace[h].calls :
                            trace[h].calls[i].call = "notes.insert"}) <= 1)

\* C20, reached: after one save that inserted a record, the insert of a
\* second save from the manual-entry form failed.
C20_SecondInsertFailed ==
    /\ Cardinality(DOMAIN notes) = 1
    /\ screen = "add"
    /\ add.pc = "idle" /\ ~add.isSaving /\ add.error
    /\ trace["add.handleSave"].failed
    /\ Len(trace["add.handleSave"].calls) = 2

\* A step in which handleCategorize settles, with a failure or without.
CategorizeFails == voice.pc = "categorize" /\ CallFailed("transcription.handleCategorize")
CategorizeSucceeds ==
    /\ voice.pc = "categorize" /\ voice'.pc = "idle"
    /\ ~trace'["transcription.handleCategorize"].failed
    /\ voice'.settled # JsNull /\ voice'.settled.outcome = "resolved"

\* Whether a save from the voice-confirmation screen is between its awaits.
VoiceSaving == voice.pc \in {"getUser", "insert"}

\* C21: on the voice-confirmation screen expenseData becomes set only in
\* the step in which a categorisation succeeds; a save is started only with
\* expenseData set, no categorisation loading, no save in flight and a
\* non-empty text; a categorisation that fails leaves expenseData as it was
\* and sets isLoading to false, and a categorisation starts again only by
\* Retry; every record created from the screen has the transcript the
\* screen was opened with, which is not empty.
C21_SaveAfterCategorize ==
    /\ [][/\ (voice.expenseData = JsNull /\ voice'.expenseData # JsNull) =>
                CategorizeSucceeds /\ screen' = "voice"
          /\ (~VoiceSaving /\ VoiceSaving') =>
                /\ voice.expenseData # JsNull /\ ~voice.isLoading /\ ~voice.isSaving
                /\ Truthy(voice.text) /\ screen = "voice"
          /\ CategorizeFails =>
                /\ voice'.expenseData = voice.expenseData
                /\ ~voice'.isLoading /\ voice'.error /\ voice'.pc = "idle"
                /\ notes' = notes
          /\ (screen = "voice" /\ voice.pc # "categorize" /\ voice'.pc = "categorize") =>
                voice.error /\ ~voice.isLoading /\ voice'.text = voice.text
          /\ (screen = "voice" /\ screen' = "voice") => voice'.text = voice.text
          /\ (screen = "voice" /\ notes' # notes) =>
                /\ voice.pc = "insert" /\ voice.expenseData # JsNull
                /\ OneInserted
                /\ notes'[nextId].transcript = voice.text
                /\ Truthy(voice.text)]_vars
    /\ [](VoiceSaving => voice.expenseData # JsNull /\ ~voice.isLoading /\ voice.isSaving)
    /\ [](voice.isLoading <=> voice.pc = "categorize")

\* C21, reached: the insert of a save is in flight after an earlier save
\* failed and the Retry of the categorisation failed as well.
C21_RetryFailedThenSaved ==
    /\ screen = "voice"
    /\ voice.pc = "insert"
    /\ voice.settled # JsNull /\ voice.settled.outcome = "rejected"
    /\ voice.expenseData # JsNull

\* C21 as stated: when a categorisation fails, expenseData is unset and
\* isLoading is false, and no save starts while the latest categorisation
\* has failed.
C21_AsStated ==
    [][/\ CategorizeFails => voice'.expenseData = JsNull /\ ~voice'.isLoading
       /\ (~VoiceSaving /\ VoiceSaving') =>
            (voice.settled # JsNull /\ voice.settled.outcome = "resolved")]_vars

\* Whether a value is a calendar date, as a YYYY-MM-DD text names one.
IsCivil(c) ==
    /\ c.y \in Years /\ c.m \in 1..12
    /\ c.d \in 1..DaysInMonth(c.y, c.m)

\* The calendar date of the instant now on the device.
Today == LocalCivil([valid |-> TRUE, t |-> now], tz)

\* The date a save stores for the date text of its form, as C22 states it.
StoredFor(text, stored) ==
    /\ IsCivil(stored)
    /\ ~IsDateText(text) => stored = Today

\* The dates of a language-model answer that stand for no date.
NoDate == {JsNull, Str(<<>>), Str(<<" ">>), Str(<<"null">>)}

\* C22: a categorisation that resolves with an object whose date is null,
\* empty, blank or "null" sets the date to today's; a save of any of the
\* three forms stores a calendar date, and today's date when its date text
\* is empty or does not parse.
C22_TodayStored ==
    [][/\ (CategorizeSucceeds /\ voice'.settled.value.type = "object"
              /\ voice'.settled.value.amount # JsUndefined
              /\ voice'.settled.value.date \in NoDate) =>
            voice'.expenseData.date = MdyText(Today)
       /\ (add.pc = "insert" /\ nextId' # nextId) =>
            StoredFor(add.req.form.date, notes'[nextId].date_of_transaction)
       /\ (voice.pc = "insert" /\ nextId' # nextId) =>
            StoredFor(voice.req.form.date, notes'[nextId].date_of_transaction)
       /\ (edit.pc \in {"update", "retry"} /\ edits' # edits /\ edit.id \in DOMAIN notes) =>
            StoredFor(edit.req.form.date, notes'[edit.id].date_of_transaction)]_vars

\* The ids of the rows a select returned.
RowIds(rows) == { rows[i].id : i \in 1..Len(rows) }

\* The refreshes handleDeleteExpense started that are in flight.
Refreshes == { k \in FetchSlots : fetches[k].pc # "idle" /\ fetches[k].by = "delete" }

\* C23: a delete that succeeds removes the record with the swiped id and no
\* other and starts a list fetch; that fetch is answered with records of
\* the store, in which no removed id appears again, and when it completes
\* the list shows records of its answer only, so not the removed one.  A
\* delete that fails leaves the store, the list and the fetches as they are
\* and shows an alert.
C23_SwipeDelete ==
    [][/\ (del.pc = "delete" /\ del'.pc = "idle"
              /\ ~trace'["home.handleDeleteExpense"].failed) =>
            /\ DOMAIN notes' = DOMAIN notes \ {del.id}
            /\ \A i \in DOMAIN notes' : notes'[i] = notes[i]
            /\ \E k \in FetchSlots :
                  /\ fetches[k].pc = "idle"
                  /\ fetches'[k].pc = "getUser" /\ fetches'[k].by = "delete"
                  /\ \A o \in FetchSlots \ {k} : fetches'[o] = fetches[o]
            /\ home'.loading /\ home'.expenseGroups = home.expenseGroups
       /\ (del.pc = "delete" /\ CallFailed("home.handleDeleteExpense")) =>
            /\ notes' = notes /\ home' = home /\ fetches' = fetches
            /\ trace'["home.handleDeleteExpense"].alerted
            /\ del'.pc = "idle"
       /\ \A id \in (1..(nextId - 1)) \ DOMAIN notes : id \notin DOMAIN notes'
       /\ \A k \in Refreshes :
            /\ (fetches[k].pc = "select" /\ fetches'[k].pc = "response") =>
                  RowIds(fetches'[k].rows) \subseteq DOMAIN notes
            /\ (fetches'[k].pc = "idle" /\ fetches[k].live) =>
                  /\ ShownIds(home'.expenseGroups) \subseteq RowIds(fetches[k].rows)
                  /\ ~home'.loading]_vars

\* C23, reached: of two records the first was swiped away, and the list
\* shows the second alone after the fetches have settled.
C23_FirstSwipedAway ==
    /\ screen = "home"
    /\ DOMAIN notes = {2}
    /\ ShownIds(home.expenseGroups) = {2}
    /\ Settled /\ ~home.loading

\* The mounted home list is on top and nothing that fetches the list is
\* in flight or due.
ListAtRest ==
    /\ screen = "home" /\ home.mounted /\ ~home.focusDue
    /\ \A k \in FetchSlots : fetches[k].pc = "idle"
    /\ del.pc = "idle"
    /\ changes = 0

\* C24: once every list fetch has completed, the list shows the grouping
\* of the records the store holds for the user.
C24_LatestShown ==
    ListAtRest =>
        home.expenseGroups = transformNotesToExpenseGroups(SelectNotes(notes, session), tz)

\* A list fetch of the mounted home list or an export is in flight.
HomeBusy ==
    \/ \E k \in FetchSlots : fetches[k].pc # "idle" /\ fetches[k].live
    \/ export.pc # "idle"

\* C25: on the mounted home list, loading is true while a list fetch or an
\* export is in flight, and false when none is.
C25_LoadingWhileBusy == home.mounted => (home.loading <=> HomeBusy)

\* C26: once Cancel was pressed or the record screen was popped, neither
\* the recorder nor the speech recognition starts, and after the unmount,
\* with no audioRecorder.stop() in flight, neither runs.
C26_StoppedOnceLeft ==
    /\ [][rec.left => /\ (rec'.recording => rec.recording)
                      /\ (rec'.listening => rec.listening)]_vars
    /\ []((rec.left /\ ~rec.mounted /\ rec.stop = "idle") =>
            (~rec.recording /\ ~rec.listening))

LoadFailed ==
    /\ screen = "edit" /\ edit.id # NoId
    /\ edit.lpc = "idle" /\ ~edit.isLoading
    /\ edit.date = Str(<<>>)

\* C28: a save of an edit form whose load failed issues no update, and the
\* date, the description and the category of the stored record stay as
\* they are.
C28_NoUpdateAfterFailedLoad ==
    [][LoadFailed =>
          /\ (edit.pc = "getUser" => edit'.pc \notin {"update", "retry"})
          /\ (edit.id \in DOMAIN notes /\ edit.id \in DOMAIN notes') =>
                \A f \in {"date_of_transaction", "description", "category"} :
                    notes'[edit.id][f] = notes[edit.id][f]]_vars

\* C29: as long as Remove is not confirmed, no save takes the receipt image
\* from a record that has one, whether or not the upload of a replacement
\* failed.
C29_ReceiptKept ==
    [][\A id \in DOMAIN notes \cap DOMAIN notes' :
          notes[id].receipt_image_url # JsNull => notes'[id].receipt_image_url # JsNull]_vars

=============================================================================
